---- MODULE Spec2Model ----
(***************************************************************************)
(* Model of the Telegram portfolio bot (src/telegram_bot): the per-user    *)
(* dialog state machine of bot.py (cmd_start, cmd_update, handle_photo,    *)
(* dialog_flow, _finalize_profile_and_deploy), the in-memory session and   *)
(* the durable repo-info record of that user.                              *)
(*                                                                         *)
(* Texts are ASCII stand-ins of the source's strings (the parser accepts   *)
(* ASCII only); each stand-in names the source literal it stands for.      *)
(***************************************************************************)
EXTENDS Naturals, Sequences, FiniteSets, TLC

VARIABLES
    session,      \* SESSIONS[user_id]: the user's UserSession        (bot.py 33-69)
    repo_info,    \* the mapping of telegram_bot/user_repos.json     (bot.py 72-108)
    called,       \* the collaborator calls of the last handler, with their outcomes
    reported,     \* the failures the last handler reported to the user
    skipped,      \* the contact fields whose latest answer was the skip token
    nDeviations,  \* number of updates so far that left the straight path
    script,       \* observers of two scripted runs (positions in the scripts)
    hugo_toml,    \* the remote hugo.toml and the last call of its field mutator
    handlers,     \* the handlers on the event loop that wait at an await, and
                  \* where they stand
    repo_from,    \* what the user did about the repository name since the
                  \* account name was last entered
    publication,  \* one call of apply_profile_to_repo: its arguments and results
    SESSIONS,     \* the sessions of two users (the dict of bot.py 69)
    repository    \* one call of ensure_repo_from_template: the answers of
                  \* the API, the requests made and the outcome

vars == <<session, repo_info, called, reported, skipped, nDeviations, script,
          hugo_toml, handlers, repo_from, publication, SESSIONS, repository>>

----------------------------------------------------------------------------
(* Bounds of the model.                                                    *)

\* The updates of a run that leave the straight path of the dialog: a
\* command (/start, /restart, /update), a value given at an optional prompt
\* of the creation flow instead of the skip token, an affirmative answer at
\* a 'repeat?' prompt, an account name other than the recorded one, a
\* handler that gives way to other handlers of the user at an await.  Every
\* other update (answers, skips, menu choices, cancels, photos, texts the
\* bot ignores, failing collaborators) is unbounded.
MaxDeviations == 2

\* The handlers that begin while a handler waits at its awaits.
MaxOvertakes == 1

----------------------------------------------------------------------------
(* Python values.                                                          *)

\* Python's None: a value no text equals.
None == "<None>"

\* Python truthiness of an Optional[str] / Optional[bytes].
Truthy(v) == v # None /\ v # ""

\* dict: a function from the keys present to their values.
EmptyDict == [k \in {} |-> None]
Has(d, k) == k \in DOMAIN d
Get(d, k) == IF k \in DOMAIN d THEN d[k] ELSE None
Put(d, k, v) == [x \in (DOMAIN d) \cup {k} |-> IF x = k THEN v ELSE d[x]]
Pop(d, k) == [x \in (DOMAIN d) \ {k} |-> d[x]]

----------------------------------------------------------------------------
(* The texts the handlers compare against (ASCII stand-ins).               *)

\* start_choice keyboard, bot.py 179-181
LblCreateNewPortfolio == "Sozdat novoe portfolio"             \* "🔄 Создать новое портфолио"
LblUpdateExisting     == "Obnovit sushchestvuyushchee (/update)" \* "✏️ Обновить существующее (/update)"
LblCancel             == "Otmena"                             \* "❌ Отмена"
\* github_username_choice keyboard, bot.py 748-750
LblUseExisting        == "Ispolzovat sushchestvuyushchiy"     \* "✅ Использовать существующий"
LblCreateNewRepo      == "Sozdat novyy"                       \* "🆕 Создать новый"
\* update_menu keyboard, bot.py 243-249
LblNameSurname        == "Imya i familiya"                    \* "👤 Имя и фамилия"
LblGrade              == "Greyd / rol"                        \* "💼 Грейд / роль"
LblCity               == "Gorod"                              \* "📍 Город"
LblIntro              == "Intro"                              \* "📝 Интро"
LblContacts           == "Kontakty"                           \* "📧 Контакты"
LblPhoto              == "Foto"                               \* "📸 Фото"
\* update_contacts_menu keyboard, bot.py 574-580
LblEmail              == "Email"                              \* "📧 Email"
LblTelegram           == "Telegram"                           \* "💬 Telegram"
LblLinkedIn           == "LinkedIn"                           \* "💼 LinkedIn"
LblDribbble           == "Dribbble"                           \* "🎨 Dribbble"
LblBehance            == "Behance"                            \* "🖼️ Behance"
LblCV                 == "CV"                                 \* "📄 CV"

\* the skip token of optional prompts, bot.py 907
Skip == "-"

\* str.lower, letter by letter
UpperCase == <<"A", "B", "C", "D", "E", "F", "G", "H", "I", "J", "K", "L", "M",
               "N", "O", "P", "Q", "R", "S", "T", "U", "V", "W", "X", "Y", "Z">>
LowerCase == <<"a", "b", "c", "d", "e", "f", "g", "h", "i", "j", "k", "l", "m",
               "n", "o", "p", "q", "r", "s", "t", "u", "v", "w", "x", "y", "z">>
LowerChar(c) ==
    IF \E i \in 1..Len(UpperCase) : UpperCase[i] = c
    THEN LowerCase[CHOOSE i \in 1..Len(UpperCase) : UpperCase[i] = c]
    ELSE c
LowerText(t) == [i \in 1..Len(t) |-> LowerChar(t[i])]

\* How the texts of the model are spelled: the words the handlers compare
\* in lower case, in every mix of cases, the values, the skip token and the
\* keyboard labels with their lower-case forms.  "da" stands for "да", "net"
\* for "нет", a label for the source literal named above (its emoji and
\* space are their own lower case).
Spelling ==
    ( "da" :> <<"d", "a">>
    @@ "dA" :> <<"d", "A">>
    @@ "Da" :> <<"D", "a">>
    @@ "DA" :> <<"D", "A">>
    @@ "net" :> <<"n", "e", "t">>
    @@ "neT" :> <<"n", "e", "T">>
    @@ "nEt" :> <<"n", "E", "t">>
    @@ "nET" :> <<"n", "E", "T">>
    @@ "Net" :> <<"N", "e", "t">>
    @@ "NeT" :> <<"N", "e", "T">>
    @@ "NEt" :> <<"N", "E", "t">>
    @@ "NET" :> <<"N", "E", "T">>
    @@ "yes" :> <<"y", "e", "s">>
    @@ "yeS" :> <<"y", "e", "S">>
    @@ "yEs" :> <<"y", "E", "s">>
    @@ "yES" :> <<"y", "E", "S">>
    @@ "Yes" :> <<"Y", "e", "s">>
    @@ "YeS" :> <<"Y", "e", "S">>
    @@ "YEs" :> <<"Y", "E", "s">>
    @@ "YES" :> <<"Y", "E", "S">>
    @@ "no" :> <<"n", "o">>
    @@ "nO" :> <<"n", "O">>
    @@ "No" :> <<"N", "o">>
    @@ "NO" :> <<"N", "O">>
    @@ "none" :> <<"n", "o", "n", "e">>
    @@ "nonE" :> <<"n", "o", "n", "E">>
    @@ "noNe" :> <<"n", "o", "N", "e">>
    @@ "noNE" :> <<"n", "o", "N", "E">>
    @@ "nOne" :> <<"n", "O", "n", "e">>
    @@ "nOnE" :> <<"n", "O", "n", "E">>
    @@ "nONe" :> <<"n", "O", "N", "e">>
    @@ "nONE" :> <<"n", "O", "N", "E">>
    @@ "None" :> <<"N", "o", "n", "e">>
    @@ "NonE" :> <<"N", "o", "n", "E">>
    @@ "NoNe" :> <<"N", "o", "N", "e">>
    @@ "NoNE" :> <<"N", "o", "N", "E">>
    @@ "NOne" :> <<"N", "O", "n", "e">>
    @@ "NOnE" :> <<"N", "O", "n", "E">>
    @@ "NONe" :> <<"N", "O", "N", "e">>
    @@ "NONE" :> <<"N", "O", "N", "E">>
    @@ "y" :> <<"y">>
    @@ "Y" :> <<"Y">>
    @@ "a" :> <<"a">>
    @@ "A" :> <<"A">>
    @@ "b" :> <<"b">>
    @@ "B" :> <<"B">>
    @@ "Sozdat novoe portfolio" :> <<"S", "o", "z", "d", "a", "t", " ", "n", "o", "v", "o", "e", " ", "p", "o", "r", "t", "f", "o", "l", "i", "o">>
    @@ "sozdat novoe portfolio" :> <<"s", "o", "z", "d", "a", "t", " ", "n", "o", "v", "o", "e", " ", "p", "o", "r", "t", "f", "o", "l", "i", "o">>
    @@ "Obnovit sushchestvuyushchee (/update)" :> <<"O", "b", "n", "o", "v", "i", "t", " ", "s", "u", "s", "h", "c", "h", "e", "s", "t", "v", "u", "y", "u", "s", "h", "c", "h", "e", "e", " ", "(", "/", "u", "p", "d", "a", "t", "e", ")">>
    @@ "obnovit sushchestvuyushchee (/update)" :> <<"o", "b", "n", "o", "v", "i", "t", " ", "s", "u", "s", "h", "c", "h", "e", "s", "t", "v", "u", "y", "u", "s", "h", "c", "h", "e", "e", " ", "(", "/", "u", "p", "d", "a", "t", "e", ")">>
    @@ "Otmena" :> <<"O", "t", "m", "e", "n", "a">>
    @@ "otmena" :> <<"o", "t", "m", "e", "n", "a">>
    @@ "Ispolzovat sushchestvuyushchiy" :> <<"I", "s", "p", "o", "l", "z", "o", "v", "a", "t", " ", "s", "u", "s", "h", "c", "h", "e", "s", "t", "v", "u", "y", "u", "s", "h", "c", "h", "i", "y">>
    @@ "ispolzovat sushchestvuyushchiy" :> <<"i", "s", "p", "o", "l", "z", "o", "v", "a", "t", " ", "s", "u", "s", "h", "c", "h", "e", "s", "t", "v", "u", "y", "u", "s", "h", "c", "h", "i", "y">>
    @@ "Sozdat novyy" :> <<"S", "o", "z", "d", "a", "t", " ", "n", "o", "v", "y", "y">>
    @@ "sozdat novyy" :> <<"s", "o", "z", "d", "a", "t", " ", "n", "o", "v", "y", "y">>
    @@ "Imya i familiya" :> <<"I", "m", "y", "a", " ", "i", " ", "f", "a", "m", "i", "l", "i", "y", "a">>
    @@ "imya i familiya" :> <<"i", "m", "y", "a", " ", "i", " ", "f", "a", "m", "i", "l", "i", "y", "a">>
    @@ "Greyd / rol" :> <<"G", "r", "e", "y", "d", " ", "/", " ", "r", "o", "l">>
    @@ "greyd / rol" :> <<"g", "r", "e", "y", "d", " ", "/", " ", "r", "o", "l">>
    @@ "Gorod" :> <<"G", "o", "r", "o", "d">>
    @@ "gorod" :> <<"g", "o", "r", "o", "d">>
    @@ "Intro" :> <<"I", "n", "t", "r", "o">>
    @@ "intro" :> <<"i", "n", "t", "r", "o">>
    @@ "Kontakty" :> <<"K", "o", "n", "t", "a", "k", "t", "y">>
    @@ "kontakty" :> <<"k", "o", "n", "t", "a", "k", "t", "y">>
    @@ "Foto" :> <<"F", "o", "t", "o">>
    @@ "foto" :> <<"f", "o", "t", "o">>
    @@ "Email" :> <<"E", "m", "a", "i", "l">>
    @@ "email" :> <<"e", "m", "a", "i", "l">>
    @@ "Telegram" :> <<"T", "e", "l", "e", "g", "r", "a", "m">>
    @@ "telegram" :> <<"t", "e", "l", "e", "g", "r", "a", "m">>
    @@ "LinkedIn" :> <<"L", "i", "n", "k", "e", "d", "I", "n">>
    @@ "linkedin" :> <<"l", "i", "n", "k", "e", "d", "i", "n">>
    @@ "Dribbble" :> <<"D", "r", "i", "b", "b", "b", "l", "e">>
    @@ "dribbble" :> <<"d", "r", "i", "b", "b", "b", "l", "e">>
    @@ "Behance" :> <<"B", "e", "h", "a", "n", "c", "e">>
    @@ "behance" :> <<"b", "e", "h", "a", "n", "c", "e">>
    @@ "CV" :> <<"C", "V">>
    @@ "cv" :> <<"c", "v">>
    @@ "-" :> <<"-">>
    @@ "" :> <<>> )

\* the text spelled chars
Spelled(chars) == CHOOSE t \in DOMAIN Spelling : Spelling[t] = chars

\* str.lower of every text of the model
LowerOf == [t \in DOMAIN Spelling |-> Spelled(LowerText(Spelling[t]))]

\* text.lower(), bot.py 601, 1014, 1065, 1079, 1125
Lower(t) == LowerOf[t]

\* bot.py 1014, 1065, 1125: text.lower() in ("да", "yes", "y")
IsAffirmative(text) == Lower(text) \in {"da", "yes", "y"}

\* bot.py 1079: text.lower() in ("нет", "no", "none")
IsNoneSentinel(text) == Lower(text) \in {"net", "no", "none"}

----------------------------------------------------------------------------
(* The session record.                                                     *)

\* UserSession(): the dataclass defaults.
UserSession ==
    [ github_token       |-> None,
      github_username    |-> None,
      repo_name          |-> None,
      profile_data       |-> EmptyDict,
      career_items       |-> <<>>,
      universities       |-> <<>>,
      courses            |-> <<>>,
      author_image_bytes |-> None,
      step               |-> "github_username",
      pending_career     |-> EmptyDict,
      pending_university |-> EmptyDict,
      pending_course     |-> EmptyDict,
      update_mode        |-> FALSE,
      update_field       |-> None ]

\* str(message.from_user.id) of the user whose session this is
UserId == "1"

\* _get_session restoring nothing from the durable mapping
GetSessionForgetsRecord(ri) == UserSession

\* _get_session on first contact, bot.py 111-122: a new session, restored
\* from the durable mapping ri when it has an entry of the user.
GetSession(ri) ==
    IF Has(ri, UserId)
    THEN [UserSession EXCEPT !.github_username = ri[UserId].github_username,
                             !.repo_name = ri[UserId].repo_name]
    ELSE UserSession

\* _save_repo_info, bot.py 97-108: the mapping after the write.
SaveRepoInfo(ri, github_username, repo_name) ==
    Put(ri, UserId, [github_username |-> github_username, repo_name |-> repo_name])

----------------------------------------------------------------------------
(* What a handler returns in the model: the session and the durable record *)
(* it leaves, the prompts it sent (message.answer calls, in order) and the *)
(* collaborator calls it made (in order).                                  *)

Prompt(id) == [id |-> id, arg |-> None]
PromptArg(id, arg) == [id |-> id, arg |-> arg]

Result(s, ri, prompts, calls) ==
    [s |-> s, ri |-> ri, prompts |-> prompts, calls |-> calls]

\* The outcomes of the collaborators during one handler call:
\*   remote   apply_profile_to_repo / the first update_hugo_toml_field /
\*            upsert_file: "ok" or the exception text
\*   remote2  the second update_hugo_toml_field of the surname branch
\*   wf       ensure_workflow_and_trigger: "ok", "swallowed" (a failure it
\*            swallows and returns normally from), or "raise" (an exception
\*            of check_workflow_exists, which it does not catch)
Env(remote, remote2, wf) == [remote |-> remote, remote2 |-> remote2, wf |-> wf]

ErrApi == "GitHubError: api"
ErrTransport == "ConnectionError"

EnvOk == Env("ok", "ok", "ok")

Envs ==
    { Env("ok", "ok", "ok"),
      Env(ErrApi, "ok", "ok"),
      Env("ok", ErrApi, "ok"),
      Env("ok", "ok", "swallowed"),
      Env("ok", "ok", "raise") }

----------------------------------------------------------------------------
(* _start_dialog, cmd_start, cmd_update                                    *)

\* _start_dialog, bot.py 145-160
StartDialog(s, ri, prompts) ==
    IF Truthy(s.github_username) /\ Truthy(s.repo_name)
    THEN Result([s EXCEPT !.step = "github_token"], ri,
                Append(prompts, Prompt("have_portfolio_send_token")), <<>>)
    ELSE Result([s EXCEPT !.step = "github_username"], ri,
                Append(prompts, Prompt("ask_github_username")), <<>>)

\* cmd_start (commands /start and /restart), bot.py 163-191
CmdStart(s, ri) ==
    IF Has(ri, UserId)
    THEN Result([s EXCEPT !.github_username = ri[UserId].github_username,
                          !.repo_name = ri[UserId].repo_name,
                          !.step = "start_choice"],
                ri, <<Prompt("welcome"), Prompt("start_choice_menu")>>, <<>>)
    ELSE StartDialog(s, ri, <<Prompt("welcome")>>)

\* cmd_update, bot.py 214-255
CmdUpdate(s, ri) ==
    IF ~Truthy(s.github_username) \/ ~Truthy(s.repo_name)
    THEN Result(s, ri, <<Prompt("create_portfolio_first")>>, <<>>)
    ELSE IF ~Truthy(s.github_token)
    THEN Result([s EXCEPT !.step = "update_need_token"], ri,
                <<Prompt("update_send_token")>>, <<>>)
    ELSE Result([s EXCEPT !.update_mode = TRUE, !.step = "update_menu"], ri,
                <<Prompt("update_menu")>>, <<>>)

----------------------------------------------------------------------------
(* Collaborator calls, as the handlers issue them.                         *)

\* (res is the call's outcome: "ok", or the text of the exception it raised)

CallUpdateField(s, field_path, value, res) ==
    [ op |-> "update_hugo_toml_field", token |-> s.github_token,
      owner |-> s.github_username, repo |-> s.repo_name,
      field_path |-> field_path, value |-> value, result |-> res ]

CallUpsertPhoto(s, photo, res) ==
    [ op |-> "upsert_file", token |-> s.github_token,
      owner |-> s.github_username, repo |-> s.repo_name,
      path |-> "static/images/author.jpg", content |-> photo, result |-> res ]

CallWorkflow(s, res) ==
    [ op |-> "ensure_workflow_and_trigger", token |-> s.github_token,
      owner |-> s.github_username, repo |-> s.repo_name, result |-> res ]

CallApplyProfile(s, profile, res) ==
    [ op |-> "apply_profile_to_repo", token |-> s.github_token,
      profile |-> profile, image |-> s.author_image_bytes, result |-> res ]

\* Idle leaving the cursor where it was
IdleKeepsCursor(s) == [s EXCEPT !.update_mode = FALSE, !.update_field = None]

\* The session back at idle after an update, bot.py 292-294, 646-648
Idle(s) ==
    [s EXCEPT !.update_mode = FALSE, !.update_field = None,
              !.step = "github_username"]

----------------------------------------------------------------------------
(* handle_photo, bot.py 258-325                                            *)

\* HandlePhotoCapture moving on to the universities
HandlePhotoCaptureSkipsCareer(s, ri, photo) ==
    IF s.step # "author_photo"
    THEN Result(s, ri, <<>>, <<>>)
    ELSE Result([s EXCEPT !.author_image_bytes = photo, !.step = "edu_university_name"],
                ri, <<Prompt("photo_received"), Prompt("ask_career_company")>>, <<>>)

\* the capture gate, bot.py 309-325
HandlePhotoCapture(s, ri, photo) ==
    IF s.step # "author_photo"
    THEN Result(s, ri, <<>>, <<>>)
    ELSE Result([s EXCEPT !.author_image_bytes = photo, !.step = "career_company"],
                ri, <<Prompt("photo_received"), Prompt("ask_career_company")>>, <<>>)

\* the update branch, bot.py 264-307; on success it does not return and
\* runs into the capture gate of line 309 with the cursor already reset
HandlePhotoUpdate(s, ri, photo, env) ==
    IF ~Truthy(s.github_token) \/ ~Truthy(s.github_username) \/ ~Truthy(s.repo_name)
    THEN Result(s, ri, <<Prompt("repo_data_not_found")>>, <<>>)
    ELSE IF env.remote # "ok"
    THEN Result(s, ri, <<PromptArg("photo_update_error", env.remote)>>,
                <<CallUpsertPhoto(s, photo, env.remote)>>)
    ELSE IF env.wf = "raise"
    THEN Result(s, ri, <<PromptArg("photo_update_error", ErrTransport)>>,
                <<CallUpsertPhoto(s, photo, "ok"), CallWorkflow(s, ErrTransport)>>)
    ELSE LET r == HandlePhotoCapture(Idle(s), ri, photo)
         IN  Result(r.s, r.ri, <<Prompt("photo_updated")>> \o r.prompts,
                    <<CallUpsertPhoto(s, photo, "ok"), CallWorkflow(s, "ok")>>)

HandlePhoto(s, ri, photo, env) ==
    IF s.update_mode /\ s.step = "update_author_photo"
    THEN HandlePhotoUpdate(s, ri, photo, env)
    ELSE HandlePhotoCapture(s, ri, photo)

----------------------------------------------------------------------------
(* _finalize_profile_and_deploy, bot.py 328-481                            *)

RequiredProfileKeys ==
    <<"author_name", "author_surname", "author_grade", "author_city", "author_intro">>
RequiredCareerKeys == <<"company", "role", "start", "end", "description">>
RequiredCourseKeys == <<"title">>
RequiredUniversityKeys == <<"name", "year", "speciality">>

\* the first key of keys that dict d lacks (the KeyError's key), or None
RECURSIVE FirstMissingIn(_, _)
FirstMissingIn(keys, d) ==
    IF keys = <<>> THEN None
    ELSE IF ~Has(d, Head(keys)) THEN Head(keys)
    ELSE FirstMissingIn(Tail(keys), d)

RECURSIVE FirstMissingItem(_, _)
FirstMissingItem(keys, items) ==
    IF items = <<>> THEN None
    ELSE LET m == FirstMissingIn(keys, Head(items))
         IN  IF m # None THEN m ELSE FirstMissingItem(keys, Tail(items))

\* the key of the KeyError that Profile(...) raises, bot.py 350-396, in the
\* order the constructor's arguments are evaluated; None when it raises none
MissingKey(s) ==
    LET m1 == FirstMissingIn(RequiredProfileKeys, s.profile_data)
        m2 == FirstMissingItem(RequiredCareerKeys, s.career_items)
        m3 == FirstMissingItem(RequiredCourseKeys, s.courses)
        m4 == FirstMissingItem(RequiredUniversityKeys, s.universities)
    IN  IF m1 # None THEN m1
        ELSE IF m2 # None THEN m2
        ELSE IF m3 # None THEN m3
        ELSE m4

CareerItem(item) ==
    [ company |-> item["company"], role |-> item["role"],
      location |-> Get(item, "location"), start |-> item["start"],
      end |-> item["end"], description |-> item["description"] ]

Course(item) ==
    [ title |-> item["title"], url |-> Get(item, "url"),
      provider |-> Get(item, "provider"), year |-> Get(item, "year"),
      status |-> Get(item, "status"), certificate |-> Get(item, "certificate") ]

University(item) ==
    [ name |-> item["name"], year |-> item["year"],
      speciality |-> item["speciality"], degree |-> Get(item, "degree"),
      note |-> Get(item, "note") ]

\* BuildProfile with the universities left out of the profile
BuildProfileNoUniversities(s) ==
    LET pd == s.profile_data
    IN  [ github_username |-> s.github_username,
          repo_name       |-> s.repo_name,
          author_name     |-> pd["author_name"],
          author_surname  |-> pd["author_surname"],
          author_grade    |-> pd["author_grade"],
          author_city     |-> pd["author_city"],
          author_intro    |-> pd["author_intro"],
          author_email    |-> Get(pd, "author_email"),
          author_telegram |-> Get(pd, "author_telegram"),
          author_linkedin |-> Get(pd, "author_linkedin"),
          author_dribbble |-> Get(pd, "author_dribbble"),
          author_behance  |-> Get(pd, "author_behance"),
          author_cv       |-> Get(pd, "author_cv"),
          career_items    |-> [i \in 1..Len(s.career_items) |-> CareerItem(s.career_items[i])],
          courses         |-> [i \in 1..Len(s.courses) |-> Course(s.courses[i])],
          universities    |-> <<>> ]

\* Profile(...), bot.py 350-396 (defined when MissingKey(s) = None)
BuildProfile(s) ==
    LET pd == s.profile_data
    IN  [ github_username |-> s.github_username,
          repo_name       |-> s.repo_name,
          author_name     |-> pd["author_name"],
          author_surname  |-> pd["author_surname"],
          author_grade    |-> pd["author_grade"],
          author_city     |-> pd["author_city"],
          author_intro    |-> pd["author_intro"],
          author_email    |-> Get(pd, "author_email"),
          author_telegram |-> Get(pd, "author_telegram"),
          author_linkedin |-> Get(pd, "author_linkedin"),
          author_dribbble |-> Get(pd, "author_dribbble"),
          author_behance  |-> Get(pd, "author_behance"),
          author_cv       |-> Get(pd, "author_cv"),
          career_items    |-> [i \in 1..Len(s.career_items) |-> CareerItem(s.career_items[i])],
          courses         |-> [i \in 1..Len(s.courses) |-> Course(s.courses[i])],
          universities    |-> [i \in 1..Len(s.universities) |-> University(s.universities[i])] ]

\* ResetAfterPublish clearing the credential too
ResetAfterPublishClearsToken(s) ==
    [s EXCEPT !.step = "github_username",
              !.profile_data = EmptyDict,
              !.career_items = <<>>,
              !.universities = <<>>,
              !.courses = <<>>,
              !.author_image_bytes = None,
              !.update_mode = FALSE,
              !.github_token = None]

\* the reset after a successful publish, bot.py 434-442
ResetAfterPublish(s) ==
    [s EXCEPT !.step = "github_username",
              !.profile_data = EmptyDict,
              !.career_items = <<>>,
              !.universities = <<>>,
              !.courses = <<>>,
              !.author_image_bytes = None,
              !.update_mode = FALSE]

\* _finalize_profile_and_deploy returns before the publish, bot.py 334-402
FinalizeGivesUp(s) ==
    \/ ~Truthy(s.github_token) \/ ~Truthy(s.github_username) \/ ~Truthy(s.repo_name)
    \/ ~Truthy(s.author_image_bytes)
    \/ MissingKey(s) # None

\* FinalizeProfileAndDeploy resetting the session when publish fails
FinalizeResetsOnPublishFailure(s, ri, env) ==
    IF ~Truthy(s.github_token) \/ ~Truthy(s.github_username) \/ ~Truthy(s.repo_name)
    THEN Result(s, ri, <<Prompt("github_data_missing")>>, <<>>)
    ELSE IF ~Truthy(s.author_image_bytes)
    THEN Result(s, ri, <<Prompt("photo_missing")>>, <<>>)
    ELSE IF MissingKey(s) # None
    THEN Result(s, ri, <<PromptArg("missing_field", MissingKey(s))>>, <<>>)
    ELSE LET profile == BuildProfile(s)
         IN  IF env.remote # "ok"
             THEN Result(ResetAfterPublish(s), ri,
                         <<Prompt("building_repo"), PromptArg("github_error", env.remote)>>,
                         <<CallApplyProfile(s, profile, env.remote)>>)
             ELSE Result(ResetAfterPublish(s),
                         SaveRepoInfo(ri, profile.github_username, profile.repo_name),
                         <<Prompt("building_repo"), Prompt("done")>>,
                         <<CallApplyProfile(s, profile, "ok")>>)

\* FinalizeProfileAndDeploy resetting the session when a field is missing
FinalizeResetsOnMissingField(s, ri, env) ==
    IF ~Truthy(s.github_token) \/ ~Truthy(s.github_username) \/ ~Truthy(s.repo_name)
    THEN Result(s, ri, <<Prompt("github_data_missing")>>, <<>>)
    ELSE IF ~Truthy(s.author_image_bytes)
    THEN Result(s, ri, <<Prompt("photo_missing")>>, <<>>)
    ELSE IF MissingKey(s) # None
    THEN Result(ResetAfterPublish(s), ri,
                <<PromptArg("missing_field", MissingKey(s))>>, <<>>)
    ELSE LET profile == BuildProfile(s)
         IN  IF env.remote # "ok"
             THEN Result(s, ri,
                         <<Prompt("building_repo"), PromptArg("github_error", env.remote)>>,
                         <<CallApplyProfile(s, profile, env.remote)>>)
             ELSE Result(ResetAfterPublish(s),
                         SaveRepoInfo(ri, profile.github_username, profile.repo_name),
                         <<Prompt("building_repo"), Prompt("done")>>,
                         <<CallApplyProfile(s, profile, "ok")>>)

\* _finalize_profile_and_deploy, bot.py 328-481
FinalizeProfileAndDeploy(s, ri, env) ==
    IF ~Truthy(s.github_token) \/ ~Truthy(s.github_username) \/ ~Truthy(s.repo_name)
    THEN Result(s, ri, <<Prompt("github_data_missing")>>, <<>>)
    ELSE IF ~Truthy(s.author_image_bytes)
    THEN Result(s, ri, <<Prompt("photo_missing")>>, <<>>)
    ELSE IF MissingKey(s) # None
    THEN Result(s, ri, <<PromptArg("missing_field", MissingKey(s))>>, <<>>)
    ELSE LET profile == BuildProfile(s)
         IN  IF env.remote # "ok"
             THEN Result(s, ri,
                         <<Prompt("building_repo"), PromptArg("github_error", env.remote)>>,
                         <<CallApplyProfile(s, profile, env.remote)>>)
             ELSE Result(ResetAfterPublish(s),
                         SaveRepoInfo(ri, profile.github_username, profile.repo_name),
                         <<Prompt("building_repo"), Prompt("done")>>,
                         <<CallApplyProfile(s, profile, "ok")>>)

----------------------------------------------------------------------------
(* dialog_flow: the update sub-flow, bot.py 520-729                        *)

ContactFields ==
    { "author_email", "author_telegram", "author_linkedin",
      "author_dribbble", "author_behance", "author_cv" }

\* field_map, bot.py 590-597
FieldMap ==
    [ l \in {LblEmail, LblTelegram, LblLinkedIn, LblDribbble, LblBehance, LblCV} |->
        CASE l = LblEmail    -> "author_email"
          [] l = LblTelegram -> "author_telegram"
          [] l = LblLinkedIn -> "author_linkedin"
          [] l = LblDribbble -> "author_dribbble"
          [] l = LblBehance  -> "author_behance"
          [] l = LblCV       -> "author_cv" ]

\* f"update_{field}", bot.py 600
UpdateStepOf(fld) ==
    CASE fld = "author_email"    -> "update_author_email"
      [] fld = "author_telegram" -> "update_author_telegram"
      [] fld = "author_linkedin" -> "update_author_linkedin"
      [] fld = "author_dribbble" -> "update_author_dribbble"
      [] fld = "author_behance"  -> "update_author_behance"
      [] fld = "author_cv"       -> "update_author_cv"

\* the cursor values s with s.startswith("update_"), bot.py 605
UpdateSteps ==
    { "update_need_token", "update_menu", "update_contacts_menu",
      "update_author_name", "update_author_surname", "update_author_grade",
      "update_author_city", "update_author_intro", "update_author_photo" }
    \cup { UpdateStepOf(f) : f \in ContactFields }

\* the options of update_menu, bot.py 550-586: label -> (cursor, update_field);
\* the photo option leaves update_field as it is
UpdateMenuLabels == {LblNameSurname, LblGrade, LblCity, LblIntro, LblContacts, LblPhoto}

UpdateMenu(s, ri, text) ==
    CASE text = LblNameSurname ->
           Result([s EXCEPT !.step = "update_author_name", !.update_field = "author_name"],
                  ri, <<Prompt("enter_new_name")>>, <<>>)
      [] text = LblGrade ->
           Result([s EXCEPT !.step = "update_author_grade", !.update_field = "author_grade"],
                  ri, <<Prompt("enter_new_grade")>>, <<>>)
      [] text = LblCity ->
           Result([s EXCEPT !.step = "update_author_city", !.update_field = "author_city"],
                  ri, <<Prompt("enter_new_city")>>, <<>>)
      [] text = LblIntro ->
           Result([s EXCEPT !.step = "update_author_intro", !.update_field = "author_intro"],
                  ri, <<Prompt("enter_new_intro")>>, <<>>)
      [] text = LblContacts ->
           Result([s EXCEPT !.step = "update_contacts_menu"],
                  ri, <<Prompt("which_contact")>>, <<>>)
      [] text = LblPhoto ->
           Result([s EXCEPT !.step = "update_author_photo"],
                  ri, <<Prompt("send_new_photo")>>, <<>>)

\* bot.py 589-602
UpdateContactsMenu(s, ri, text) ==
    Result([s EXCEPT !.update_field = FieldMap[text], !.step = UpdateStepOf(FieldMap[text])],
           ri, <<PromptArg("enter_new_contact", Lower(text))>>, <<>>)

\* the except clause of bot.py 726-729: the error is sent and the handler
\* returns; sn is the session as the try block left it
UpdateFailed(sn, ri, prompts, done, err) ==
    Result(sn, ri, Append(prompts, PromptArg("update_error", err)), done)

\* the workflow step and the return to idle that end every successful
\* update, bot.py 638-658, 676-696, 706-725
UpdateFinish(sn, ri, prompts, done, env, donePrompt) ==
    IF env.wf = "raise"
    THEN UpdateFailed(sn, ri, prompts, Append(done, CallWorkflow(sn, ErrTransport)),
                      ErrTransport)
    ELSE Result(Idle(sn), ri, Append(prompts, donePrompt),
                Append(done, CallWorkflow(sn, "ok")))

\* the value-entry block, bot.py 605-729
UpdateFieldValue(s, ri, text, env) ==
    LET field_name == s.update_field
    IN  IF ~Truthy(field_name)
        THEN Result(s, ri, <<Prompt("field_not_selected")>>, <<>>)
        ELSE IF field_name = "author_name"
        THEN Result([s EXCEPT !.step = "update_author_surname",
                              !.profile_data = Put(@, "temp_name", text)],
                    ri, <<Prompt("enter_surname")>>, <<>>)
        ELSE IF field_name \in ContactFields
        THEN LET value == IF text = Skip THEN "" ELSE text
                 said  == IF text = Skip THEN PromptArg("field_deleted", field_name)
                                         ELSE PromptArg("field_updated", field_name)
             IN  IF env.remote # "ok"
                 THEN UpdateFailed(s, ri, <<>>,
                                   <<CallUpdateField(s, field_name, value, env.remote)>>,
                                   env.remote)
                 ELSE UpdateFinish(s, ri, <<said>>,
                                   <<CallUpdateField(s, field_name, value, "ok")>>,
                                   env, Prompt("changes_applied"))
        ELSE IF s.step = "update_author_surname"
        THEN LET tmp == IF Has(s.profile_data, "temp_name")
                        THEN s.profile_data["temp_name"] ELSE ""
                 sn == [s EXCEPT !.profile_data = Pop(@, "temp_name")]
             IN  IF env.remote # "ok"
                 THEN UpdateFailed(s, ri, <<>>,
                                   <<CallUpdateField(s, "author_name", tmp, env.remote)>>,
                                   env.remote)
                 ELSE IF env.remote2 # "ok"
                 THEN UpdateFailed(s, ri, <<>>,
                                   <<CallUpdateField(s, "author_name", tmp, "ok"),
                                     CallUpdateField(s, "author_surname", text, env.remote2)>>,
                                   env.remote2)
                 ELSE UpdateFinish(sn, ri, <<Prompt("name_surname_updated")>>,
                                   <<CallUpdateField(s, "author_name", tmp, "ok"),
                                     CallUpdateField(s, "author_surname", text, "ok")>>,
                                   env, Prompt("changes_applied"))
        ELSE IF env.remote # "ok"
        THEN UpdateFailed(s, ri, <<>>,
                          <<CallUpdateField(s, field_name, text, env.remote)>>, env.remote)
        ELSE UpdateFinish(s, ri, <<>>, <<CallUpdateField(s, field_name, text, "ok")>>,
                          env, PromptArg("field_updated_applied", field_name))

\* whether the update-mode block (bot.py 542-729) returns for this message;
\* when it does not, the handler goes on to the creation flow below it
UpdateModeReturns(s, text) ==
    \/ text = LblCancel
    \/ s.step = "update_menu" /\ text \in UpdateMenuLabels
    \/ s.step = "update_contacts_menu" /\ text \in DOMAIN FieldMap
    \/ s.step \in UpdateSteps

\* UpdateModeBlock taking the cancel label at the two menus only
UpdateModeBlockCancelsAtMenus(s, ri, text, env) ==
    IF text = LblCancel /\ s.step \in {"update_menu", "update_contacts_menu"}
    THEN Result(Idle(s), ri, <<Prompt("update_cancelled")>>, <<>>)
    ELSE IF s.step = "update_menu" /\ text \in UpdateMenuLabels
    THEN UpdateMenu(s, ri, text)
    ELSE IF s.step = "update_contacts_menu" /\ text \in DOMAIN FieldMap
    THEN UpdateContactsMenu(s, ri, text)
    ELSE UpdateFieldValue(s, ri, text, env)

\* the update-mode block, bot.py 541-729
UpdateModeBlock(s, ri, text, env) ==
    IF text = LblCancel
    THEN Result(Idle(s), ri, <<Prompt("update_cancelled")>>, <<>>)
    ELSE IF s.step = "update_menu" /\ text \in UpdateMenuLabels
    THEN UpdateMenu(s, ri, text)
    ELSE IF s.step = "update_contacts_menu" /\ text \in DOMAIN FieldMap
    THEN UpdateContactsMenu(s, ri, text)
    ELSE UpdateFieldValue(s, ri, text, env)

\* bot.py 496-518: the options of start_choice
StartChoiceLabels == {LblCreateNewPortfolio, LblUpdateExisting, LblCancel}

StartChoice(s, ri, text) ==
    CASE text = LblCreateNewPortfolio ->
           LET sn == [s EXCEPT !.github_token = None, !.github_username = None,
                               !.repo_name = None]
           IN  StartDialog(sn, Pop(ri, UserId), <<Prompt("creating_new_portfolio")>>)
      [] text = LblUpdateExisting ->
           Result([s EXCEPT !.step = "github_username"], ri, <<Prompt("use_update_command")>>, <<>>)
      [] text = LblCancel ->
           Result([s EXCEPT !.step = "github_username"], ri, <<Prompt("cancelled")>>, <<>>)

\* bot.py 521-539
UpdateNeedToken(s, ri, text) ==
    Result([s EXCEPT !.github_token = text, !.update_mode = TRUE, !.step = "update_menu"],
           ri, <<Prompt("token_received_update_menu")>>, <<>>)

----------------------------------------------------------------------------
(* dialog_flow: the creation flow, bot.py 731-1137                         *)

\* bot.py 736-774
GithubUsername(s, ri, text) ==
    LET s1 == [s EXCEPT !.github_username = text]
    IN  IF Has(ri, UserId) /\ ri[UserId].github_username = text
        THEN Result([s1 EXCEPT !.repo_name = ri[UserId].repo_name,
                               !.step = "github_username_choice"],
                    ri, <<Prompt("username_choice_menu")>>, <<>>)
        ELSE Result([s1 EXCEPT !.step = "github_token"], ri, <<Prompt("ask_token")>>, <<>>)

\* bot.py 776-819: the options of github_username_choice
UsernameChoiceLabels == {LblUseExisting, LblCreateNewRepo, LblCancel}

GithubUsernameChoice(s, ri, text) ==
    CASE text = LblUseExisting ->
           Result([s EXCEPT !.step = "github_token"], ri, <<Prompt("use_existing_ask_token")>>, <<>>)
      [] text = LblCreateNewRepo ->
           Result([s EXCEPT !.repo_name = None, !.step = "repo_name"], ri,
                  <<Prompt("new_repo_ask_name")>>, <<>>)
      [] text = LblCancel ->
           Result([s EXCEPT !.step = "github_username", !.github_username = None,
                            !.repo_name = None],
                  ri, <<Prompt("cancelled_ask_username")>>, <<>>)

\* bot.py 821-849
GithubToken(s, ri, text) ==
    LET s1 == [s EXCEPT !.github_token = text]
    IN  IF Truthy(s1.repo_name)
        THEN Result([s1 EXCEPT !.step = "author_name"], ri, <<Prompt("ask_author_name")>>, <<>>)
        ELSE Result([s1 EXCEPT !.step = "repo_name"], ri, <<Prompt("token_received_ask_repo")>>, <<>>)

\* bot.py 851-868
RepoName(s, ri, text) ==
    Result([s EXCEPT !.repo_name = text, !.step = "github_token"], ri,
           <<PromptArg("repo_named_ask_token", text)>>, <<>>)

\* a required single-value field, bot.py 870-904
CaptureField(s, ri, key, text, next, prompt) ==
    Result([s EXCEPT !.profile_data = Put(@, key, text), !.step = next], ri,
           <<Prompt(prompt)>>, <<>>)

\* an optional contact link, bot.py 906-960
CaptureContact(s, ri, key, text, next, prompt) ==
    Result([s EXCEPT !.profile_data = IF text # Skip THEN Put(@, key, text) ELSE @,
                     !.step = next],
           ri, <<Prompt(prompt)>>, <<>>)

\* Career asking for the role first when another entry is added
CareerReentersAtRole(s, ri, text) ==
    CASE s.step = "career_company" ->
           Result([s EXCEPT !.pending_career = Put(EmptyDict, "company", text),
                            !.step = "career_role"], ri, <<Prompt("ask_career_role")>>, <<>>)
      [] s.step = "career_role" ->
           Result([s EXCEPT !.pending_career = Put(@, "role", text),
                            !.step = "career_location"], ri, <<Prompt("ask_career_location")>>, <<>>)
      [] s.step = "career_location" ->
           Result([s EXCEPT !.pending_career = IF text # Skip THEN Put(@, "location", text) ELSE @,
                            !.step = "career_start"], ri, <<Prompt("ask_career_start")>>, <<>>)
      [] s.step = "career_start" ->
           Result([s EXCEPT !.pending_career = Put(@, "start", text),
                            !.step = "career_end"], ri, <<Prompt("ask_career_end")>>, <<>>)
      [] s.step = "career_end" ->
           Result([s EXCEPT !.pending_career = Put(@, "end", text),
                            !.step = "career_description"], ri,
                  <<Prompt("ask_career_description")>>, <<>>)
      [] s.step = "career_description" ->
           Result([s EXCEPT !.career_items =
                                Append(@, Put(s.pending_career, "description", text)),
                            !.pending_career = EmptyDict,
                            !.step = "career_more"], ri, <<Prompt("ask_career_more")>>, <<>>)
      [] s.step = "career_more" ->
           IF IsAffirmative(text)
           THEN Result([s EXCEPT !.step = "career_role"], ri,
                       <<Prompt("ask_next_company")>>, <<>>)
           ELSE Result([s EXCEPT !.step = "edu_university_name"], ri,
                       <<Prompt("ask_first_university")>>, <<>>)

\* one step of the career sub-record, bot.py 963-1011
Career(s, ri, text) ==
    CASE s.step = "career_company" ->
           Result([s EXCEPT !.pending_career = Put(EmptyDict, "company", text),
                            !.step = "career_role"], ri, <<Prompt("ask_career_role")>>, <<>>)
      [] s.step = "career_role" ->
           Result([s EXCEPT !.pending_career = Put(@, "role", text),
                            !.step = "career_location"], ri, <<Prompt("ask_career_location")>>, <<>>)
      [] s.step = "career_location" ->
           Result([s EXCEPT !.pending_career = IF text # Skip THEN Put(@, "location", text) ELSE @,
                            !.step = "career_start"], ri, <<Prompt("ask_career_start")>>, <<>>)
      [] s.step = "career_start" ->
           Result([s EXCEPT !.pending_career = Put(@, "start", text),
                            !.step = "career_end"], ri, <<Prompt("ask_career_end")>>, <<>>)
      [] s.step = "career_end" ->
           Result([s EXCEPT !.pending_career = Put(@, "end", text),
                            !.step = "career_description"], ri,
                  <<Prompt("ask_career_description")>>, <<>>)
      [] s.step = "career_description" ->
           Result([s EXCEPT !.career_items =
                                Append(@, Put(s.pending_career, "description", text)),
                            !.pending_career = EmptyDict,
                            !.step = "career_more"], ri, <<Prompt("ask_career_more")>>, <<>>)
      [] s.step = "career_more" ->
           IF IsAffirmative(text)
           THEN Result([s EXCEPT !.step = "career_company"], ri,
                       <<Prompt("ask_next_company")>>, <<>>)
           ELSE Result([s EXCEPT !.step = "edu_university_name"], ri,
                       <<Prompt("ask_first_university")>>, <<>>)

\* one step of the university sub-record, bot.py 1028-1075
EduUniversity(s, ri, text) ==
    CASE s.step = "edu_university_name" ->
           Result([s EXCEPT !.pending_university = Put(EmptyDict, "name", text),
                            !.step = "edu_university_year"], ri,
                  <<Prompt("ask_university_year")>>, <<>>)
      [] s.step = "edu_university_year" ->
           Result([s EXCEPT !.pending_university = Put(@, "year", text),
                            !.step = "edu_university_speciality"], ri,
                  <<Prompt("ask_university_speciality")>>, <<>>)
      [] s.step = "edu_university_speciality" ->
           Result([s EXCEPT !.pending_university = Put(@, "speciality", text),
                            !.step = "edu_university_degree"], ri,
                  <<Prompt("ask_university_degree")>>, <<>>)
      [] s.step = "edu_university_degree" ->
           Result([s EXCEPT !.pending_university =
                                IF text # Skip THEN Put(@, "degree", text) ELSE @,
                            !.step = "edu_university_note"], ri,
                  <<Prompt("ask_university_note")>>, <<>>)
      [] s.step = "edu_university_note" ->
           Result([s EXCEPT !.universities =
                                Append(@, IF text # Skip
                                          THEN Put(s.pending_university, "note", text)
                                          ELSE s.pending_university),
                            !.pending_university = EmptyDict,
                            !.step = "edu_university_more"], ri,
                  <<Prompt("ask_university_more")>>, <<>>)
      [] s.step = "edu_university_more" ->
           IF IsAffirmative(text)
           THEN Result([s EXCEPT !.step = "edu_university_name"], ri,
                       <<Prompt("ask_next_university")>>, <<>>)
           ELSE Result([s EXCEPT !.step = "edu_course_title"], ri,
                       <<Prompt("ask_first_course")>>, <<>>)

\* one step of the course sub-record, bot.py 1078-1132
EduCourse(s, ri, text, env) ==
    CASE s.step = "edu_course_title" ->
           IF IsNoneSentinel(text)
           THEN FinalizeProfileAndDeploy(s, ri, env)
           ELSE Result([s EXCEPT !.pending_course = Put(EmptyDict, "title", text),
                                 !.step = "edu_course_url"], ri,
                       <<Prompt("ask_course_url")>>, <<>>)
      [] s.step = "edu_course_url" ->
           Result([s EXCEPT !.pending_course = IF text # Skip THEN Put(@, "url", text) ELSE @,
                            !.step = "edu_course_provider"], ri,
                  <<Prompt("ask_course_provider")>>, <<>>)
      [] s.step = "edu_course_provider" ->
           Result([s EXCEPT !.pending_course = Put(@, "provider", text),
                            !.step = "edu_course_year_or_status"], ri,
                  <<Prompt("ask_course_year_or_status")>>, <<>>)
      [] s.step = "edu_course_year_or_status" ->
           Result([s EXCEPT !.pending_course = Put(@, "status", text),
                            !.step = "edu_course_certificate"], ri,
                  <<Prompt("ask_course_certificate")>>, <<>>)
      [] s.step = "edu_course_certificate" ->
           Result([s EXCEPT !.courses =
                                Append(@, IF text # Skip
                                          THEN Put(s.pending_course, "certificate", text)
                                          ELSE s.pending_course),
                            !.pending_course = EmptyDict,
                            !.step = "edu_course_more"], ri,
                  <<Prompt("ask_course_more")>>, <<>>)
      [] s.step = "edu_course_more" ->
           IF IsAffirmative(text)
           THEN Result([s EXCEPT !.step = "edu_course_title"], ri,
                       <<Prompt("ask_next_course")>>, <<>>)
           ELSE FinalizeProfileAndDeploy(s, ri, env)

CareerSteps ==
    { "career_company", "career_role", "career_location", "career_start",
      "career_end", "career_description", "career_more" }
UniversitySteps ==
    { "edu_university_name", "edu_university_year", "edu_university_speciality",
      "edu_university_degree", "edu_university_note", "edu_university_more" }
CourseSteps ==
    { "edu_course_title", "edu_course_url", "edu_course_provider",
      "edu_course_year_or_status", "edu_course_certificate", "edu_course_more" }

\* Desynchronized sending the user back to the first prompt itself
DesynchronizedRestarts(s, ri) ==
    Result([s EXCEPT !.step = "github_username"], ri, <<Prompt("dialog_desync")>>, <<>>)

\* the fallback at the end of the handler, bot.py 1134-1137
Desynchronized(s, ri) == Result(s, ri, <<Prompt("dialog_desync")>>, <<>>)

CreationFlow(s, ri, text, env) ==
    IF ~Truthy(s.github_username) /\ s.step = "github_username" /\ text = ""
    THEN StartDialog(s, ri, <<>>)
    ELSE
    CASE s.step = "github_username" -> GithubUsername(s, ri, text)
      [] s.step = "github_username_choice" /\ text \in UsernameChoiceLabels ->
           GithubUsernameChoice(s, ri, text)
      [] s.step = "github_token" -> GithubToken(s, ri, text)
      [] s.step = "repo_name" -> RepoName(s, ri, text)
      [] s.step = "author_name" ->
           CaptureField(s, ri, "author_name", text, "author_surname", "ask_author_surname")
      [] s.step = "author_surname" ->
           CaptureField(s, ri, "author_surname", text, "author_grade", "ask_author_grade")
      [] s.step = "author_grade" ->
           CaptureField(s, ri, "author_grade", text, "author_city", "ask_author_city")
      [] s.step = "author_city" ->
           CaptureField(s, ri, "author_city", text, "author_intro", "ask_author_intro")
      [] s.step = "author_intro" ->
           CaptureField(s, ri, "author_intro", text, "contacts_email", "ask_contacts_email")
      [] s.step = "contacts_email" ->
           CaptureContact(s, ri, "author_email", text, "contacts_telegram", "ask_contacts_telegram")
      [] s.step = "contacts_telegram" ->
           CaptureContact(s, ri, "author_telegram", text, "contacts_linkedin", "ask_contacts_linkedin")
      [] s.step = "contacts_linkedin" ->
           CaptureContact(s, ri, "author_linkedin", text, "contacts_dribbble", "ask_contacts_dribbble")
      [] s.step = "contacts_dribbble" ->
           CaptureContact(s, ri, "author_dribbble", text, "contacts_behance", "ask_contacts_behance")
      [] s.step = "contacts_behance" ->
           CaptureContact(s, ri, "author_behance", text, "contacts_cv", "ask_contacts_cv")
      [] s.step = "contacts_cv" ->
           CaptureContact(s, ri, "author_cv", text, "author_photo", "ask_author_photo")
      [] s.step \in CareerSteps -> Career(s, ri, text)
      [] s.step \in UniversitySteps -> EduUniversity(s, ri, text)
      [] s.step \in CourseSteps -> EduCourse(s, ri, text, env)
      [] OTHER -> Desynchronized(s, ri)

\* dialog_flow, bot.py 484-1137
DialogFlow(s, ri, text, env) ==
    IF s.step = "start_choice" /\ text \in StartChoiceLabels
    THEN StartChoice(s, ri, text)
    ELSE IF s.step = "update_need_token"
    THEN UpdateNeedToken(s, ri, text)
    ELSE IF s.update_mode /\ UpdateModeReturns(s, text)
    THEN UpdateModeBlock(s, ri, text, env)
    ELSE CreationFlow(s, ri, text, env)

----------------------------------------------------------------------------
(* The handlers between their awaits.  A handler runs until it awaits an    *)
(* answer or a download; the event loop may run other handlers of the same *)
(* user before it goes on, and it goes on with the session as it is then.  *)
(* Where nothing of the session is read or written after an await, the     *)
(* handler has ended as far as the session goes.                           *)

\* the exception of base64.b64encode(None), github_client.py 102
ErrType == "TypeError"

\* a handler waiting at the await of line `at`, with the locals it holds
Waiting(at, photo, profile, env) ==
    [at |-> at, photo |-> photo, profile |-> profile, env |-> env]

Ended == Waiting("end", None, EmptyDict, EnvOk)

\* what a handler does between two awaits: the session and the record it
\* leaves, the prompts it sent, the calls it made, and where it waits
Segment(s, ri, prompts, calls, k) ==
    [s |-> s, ri |-> ri, prompts |-> prompts, calls |-> calls, k |-> k]

\* a handler that runs to its end
Ends(r) == Segment(r.s, r.ri, r.prompts, r.calls, Ended)

\* cmd_start up to the welcome, bot.py 165-169
CmdStartBegins(s, ri) ==
    Segment(s, ri, <<Prompt("welcome")>>, <<>>, Waiting("169", None, EmptyDict, EnvOk))

\* the capture gate up to the download, bot.py 309-315
PhotoGate(s, ri, photo) ==
    IF s.step # "author_photo"
    THEN Segment(s, ri, <<>>, <<>>, Ended)
    ELSE Segment(s, ri, <<>>, <<>>, Waiting("315", photo, EmptyDict, EnvOk))

\* handle_photo up to its first await, bot.py 260-271 or 260-315
HandlePhotoBegins(s, ri, photo, env) ==
    IF s.update_mode /\ s.step = "update_author_photo"
    THEN IF ~Truthy(s.github_token) \/ ~Truthy(s.github_username) \/ ~Truthy(s.repo_name)
         THEN Segment(s, ri, <<Prompt("repo_data_not_found")>>, <<>>, Ended)
         ELSE Segment(s, ri, <<>>, <<>>, Waiting("271", photo, EmptyDict, env))
    ELSE PhotoGate(s, ri, photo)

\* _finalize_profile_and_deploy up to 'await message.answer' of bot.py 404
FinalizeBegins(s, ri, env) ==
    IF FinalizeGivesUp(s)
    THEN Ends(FinalizeProfileAndDeploy(s, ri, env))
    ELSE Segment(s, ri, <<Prompt("building_repo")>>, <<>>,
                 Waiting("404", None, BuildProfile(s), env))

\* the value-entry block up to its first await, bot.py 605-636 and 659-675:
\* a contact value and the surname are confirmed before the workflow step
UpdateFieldValueBegins(s, ri, text, env) ==
    LET field_name == s.update_field
    IN  IF Truthy(field_name) /\ field_name \in ContactFields /\ env.remote = "ok"
        THEN IF text = Skip
             THEN Segment(s, ri, <<PromptArg("field_deleted", field_name)>>,
                          <<CallUpdateField(s, field_name, "", "ok")>>,
                          Waiting("627", None, EmptyDict, env))
             ELSE Segment(s, ri, <<PromptArg("field_updated", field_name)>>,
                          <<CallUpdateField(s, field_name, text, "ok")>>,
                          Waiting("636", None, EmptyDict, env))
        ELSE IF /\ Truthy(field_name) /\ field_name # "author_name"
                /\ field_name \notin ContactFields
                /\ s.step = "update_author_surname"
                /\ env.remote = "ok" /\ env.remote2 = "ok"
        THEN LET tmp == IF Has(s.profile_data, "temp_name")
                        THEN s.profile_data["temp_name"] ELSE ""
             IN  Segment([s EXCEPT !.profile_data = Pop(@, "temp_name")], ri,
                         <<Prompt("name_surname_updated")>>,
                         <<CallUpdateField(s, "author_name", tmp, "ok"),
                           CallUpdateField(s, "author_surname", text, "ok")>>,
                         Waiting("675", None, EmptyDict, env))
        ELSE Ends(UpdateFieldValue(s, ri, text, env))

\* the update-mode block up to its first await, bot.py 541-729
UpdateModeBlockBegins(s, ri, text, env) ==
    IF \/ text = LblCancel
       \/ s.step = "update_menu" /\ text \in UpdateMenuLabels
       \/ s.step = "update_contacts_menu" /\ text \in DOMAIN FieldMap
    THEN Ends(UpdateModeBlock(s, ri, text, env))
    ELSE UpdateFieldValueBegins(s, ri, text, env)

\* the creation flow up to its first await, bot.py 731-1137: the account
\* name of the stored record is answered with the menu before the cursor
\* moves (752-757); the two finalizing answers wait at 404
CreationFlowBegins(s, ri, text, env) ==
    IF ~Truthy(s.github_username) /\ s.step = "github_username" /\ text = ""
    THEN Ends(StartDialog(s, ri, <<>>))
    ELSE IF s.step = "github_username" /\ Has(ri, UserId)
            /\ ri[UserId].github_username = text
    THEN Segment([s EXCEPT !.github_username = text,
                           !.repo_name = ri[UserId].repo_name],
                 ri, <<Prompt("username_choice_menu")>>, <<>>,
                 Waiting("752", None, EmptyDict, EnvOk))
    ELSE IF \/ s.step = "edu_course_title" /\ IsNoneSentinel(text)
            \/ s.step = "edu_course_more" /\ ~IsAffirmative(text)
    THEN FinalizeBegins(s, ri, env)
    ELSE Ends(CreationFlow(s, ri, text, env))

\* dialog_flow up to its first await, bot.py 484-1137
DialogFlowBegins(s, ri, text, env) ==
    IF s.step = "start_choice" /\ text = LblCreateNewPortfolio
    THEN Segment([s EXCEPT !.github_token = None, !.github_username = None,
                           !.repo_name = None],
                 Pop(ri, UserId), <<Prompt("creating_new_portfolio")>>, <<>>,
                 Waiting("508", None, EmptyDict, EnvOk))
    ELSE IF s.step = "start_choice" /\ text \in StartChoiceLabels
    THEN Ends(StartChoice(s, ri, text))
    ELSE IF s.step = "update_need_token"
    THEN Ends(UpdateNeedToken(s, ri, text))
    ELSE IF s.update_mode /\ UpdateModeReturns(s, text)
    THEN UpdateModeBlockBegins(s, ri, text, env)
    ELSE CreationFlowBegins(s, ri, text, env)

\* the outcome of apply_profile_to_repo called after the await of bot.py
\* 404: the requests to GitHub come first (github_client.py 209-319) and the
\* image is uploaded last (321-327), where base64.b64encode raises on None
PublishOutcome(s, env) ==
    IF env.remote # "ok" THEN env.remote
    ELSE IF s.author_image_bytes = None THEN ErrType
    ELSE "ok"

\* a waiting handler goes on, with the session s and the record ri as they
\* are when its await returns, up to its next await or its end
Continues(k, s, ri) ==
    CASE k.at = "169" ->    \* cmd_start, bot.py 171-183 or _start_dialog
           IF Has(ri, UserId)
           THEN Segment([s EXCEPT !.github_username = ri[UserId].github_username,
                                  !.repo_name = ri[UserId].repo_name],
                        ri, <<Prompt("start_choice_menu")>>, <<>>,
                        Waiting("183", None, EmptyDict, EnvOk))
           ELSE Ends(StartDialog(s, ri, <<>>))
      [] k.at = "183" ->    \* cmd_start, bot.py 188-189
           Segment([s EXCEPT !.step = "start_choice"], ri, <<>>, <<>>, Ended)
      [] k.at = "271" ->    \* handle_photo, bot.py 272-307
           IF k.env.remote # "ok"
           THEN Segment(s, ri, <<PromptArg("photo_update_error", k.env.remote)>>,
                        <<CallUpsertPhoto(s, k.photo, k.env.remote)>>, Ended)
           ELSE IF k.env.wf = "raise"
           THEN Segment(s, ri, <<PromptArg("photo_update_error", ErrTransport)>>,
                        <<CallUpsertPhoto(s, k.photo, "ok"), CallWorkflow(s, ErrTransport)>>,
                        Ended)
           ELSE Segment(Idle(s), ri, <<Prompt("photo_updated")>>,
                        <<CallUpsertPhoto(s, k.photo, "ok"), CallWorkflow(s, "ok")>>,
                        Waiting("303", k.photo, EmptyDict, EnvOk))
      [] k.at = "303" ->    \* handle_photo, bot.py 309-315
           PhotoGate(s, ri, k.photo)
      [] k.at = "315" ->    \* handle_photo, bot.py 316-318
           Segment([s EXCEPT !.author_image_bytes = k.photo], ri,
                   <<Prompt("photo_received")>>, <<>>,
                   Waiting("318", None, EmptyDict, EnvOk))
      [] k.at = "318" ->    \* handle_photo, bot.py 321-325
           Segment([s EXCEPT !.step = "career_company"], ri,
                   <<Prompt("ask_career_company")>>, <<>>, Ended)
      [] k.at = "404" ->    \* _finalize_profile_and_deploy, bot.py 406-481
           LET res == PublishOutcome(s, k.env)
           IN  IF res # "ok"
               THEN Segment(s, ri, <<PromptArg("github_error", res)>>,
                            <<CallApplyProfile(s, k.profile, res)>>, Ended)
               ELSE Segment(ResetAfterPublish(s),
                            SaveRepoInfo(ri, k.profile.github_username, k.profile.repo_name),
                            <<Prompt("done")>>,
                            <<CallApplyProfile(s, k.profile, "ok")>>, Ended)
      [] k.at = "508" ->    \* dialog_flow, bot.py 509-510
           Ends(StartDialog(s, ri, <<>>))
      [] k.at \in {"627", "636", "675"} ->    \* dialog_flow, bot.py 638-658, 676-696
           Ends(UpdateFinish(s, ri, <<>>, <<>>, k.env, Prompt("changes_applied")))
      [] k.at = "752" ->    \* dialog_flow, bot.py 757-758
           Segment([s EXCEPT !.step = "github_username_choice"], ri, <<>>, <<>>, Ended)

\* a handler that no other handler interrupts: its segments in a row
RECURSIVE RunsOn(_)
RunsOn(g) ==
    IF g.k.at = "end" THEN Result(g.s, g.ri, g.prompts, g.calls)
    ELSE LET n == Continues(g.k, g.s, g.ri)
         IN  RunsOn(Segment(n.s, n.ri, g.prompts \o n.prompts, g.calls \o n.calls, n.k))

----------------------------------------------------------------------------
(* The user: the updates the model delivers.                               *)

\* an account name, a token, a repository name, an answer
Values == {"a"}
\* a second account name, for a user who has a durable record
OtherAccount == "b"
\* the profile photo's bytes (a downloaded photo is never empty)
Photos == {"jpg"}

OptionalSteps ==
    { "contacts_email", "contacts_telegram", "contacts_linkedin",
      "contacts_dribbble", "contacts_behance", "contacts_cv",
      "career_location", "edu_university_degree", "edu_university_note",
      "edu_course_url", "edu_course_certificate" }

MoreSteps == {"career_more", "edu_university_more", "edu_course_more"}

\* The texts a user sends at session s: a value, and every text the
\* handler tells from a value at that session.  In update mode the value
\* block (bot.py 605-627) is entered at every update_ cursor past
\* update_need_token and tells "-" from a value by session.update_field,
\* whatever that cursor is.
Inputs(s) ==
    (IF s.update_mode THEN {LblCancel} ELSE {})
    \cup (IF /\ s.update_mode
              /\ s.step \in UpdateSteps \ {"update_need_token"}
              /\ s.update_field \in ContactFields
           THEN {Skip} ELSE {})
    \cup (CASE s.step = "start_choice" -> StartChoiceLabels \cup Values
            [] s.step = "github_username_choice" -> UsernameChoiceLabels \cup Values
            [] s.step = "update_menu" -> UpdateMenuLabels \cup {LblCancel} \cup Values
            [] s.step = "update_contacts_menu" -> DOMAIN FieldMap \cup {LblCancel} \cup Values
            [] s.step \in {UpdateStepOf(f) : f \in ContactFields} -> {Skip} \cup Values
            [] s.step \in OptionalSteps -> {Skip} \cup Values
            [] s.step \in MoreSteps -> {"da", "DA", "Yes", "Y", "net"}
            [] s.step = "edu_course_title" -> {"net", "NET", "No", "None"} \cup Values
            [] s.step = "github_username" -> {OtherAccount} \cup Values
            [] OTHER -> Values)

----------------------------------------------------------------------------
(* Two scripted runs from a fresh session, observed beside the machine.    *)
(* A script is the sequence of updates a user sends, whatever the bot      *)
(* answers: "T" a value, "S" the skip token, "O" a value or the skip       *)
(* token, "P" a photo, "N" the text "нет".                                 *)

\* username, token, repository name; five identity fields; six skipped
\* contacts; photo; one career entry; "no" to more; the 'none' sentinel
ScriptDirect ==
    << "T", "T", "T",   "T", "T", "T", "T", "T",   "S", "S", "S", "S", "S", "S",
       "P",   "T", "T", "O", "T", "T", "T",   "N",   "N" >>

\* the same with the token sent again after the repository name and one
\* university entry before the sentinel
ScriptAsAsked ==
    << "T", "T", "T", "T",   "T", "T", "T", "T", "T",   "S", "S", "S", "S", "S", "S",
       "P",   "T", "T", "O", "T", "T", "T",   "N",
       "T", "T", "T", "O", "O",   "N",   "N" >>

Off == [pos |-> 0, on |-> FALSE, publishes |-> 0]
AtStart == [pos |-> 0, on |-> TRUE, publishes |-> 0]

Matches(class, m) ==
    CASE class = "T" -> m.kind = "text" /\ m.text \in Values
      [] class = "S" -> m.kind = "text" /\ m.text = Skip
      [] class = "O" -> m.kind = "text" /\ m.text \in Values \cup {Skip}
      [] class = "N" -> m.kind = "text" /\ m.text = "net"
      [] class = "P" -> m.kind = "photo"

NPublishCalls(done) ==
    Cardinality({i \in 1..Len(done) : done[i].op = "apply_profile_to_repo"})

\* the observer after update m, handled with collaborator outcomes env
Follow(tr, scr, m, env, done) ==
    IF tr.on /\ tr.pos < Len(scr) /\ Matches(scr[tr.pos + 1], m) /\ env = EnvOk
    THEN [pos |-> tr.pos + 1, on |-> TRUE, publishes |-> tr.publishes + NPublishCalls(done)]
    ELSE Off

\* the texts that continue a script being followed
ScriptTexts(tr, scr) ==
    IF tr.on /\ tr.pos < Len(scr)
    THEN {t \in Values \cup {Skip, "net"} : Matches(scr[tr.pos + 1], [kind |-> "text", text |-> t])}
    ELSE {}

----------------------------------------------------------------------------
(* The state machine.                                                      *)

\* the answers that tell the user of a failure
FailureIds ==
    { "dialog_desync", "github_data_missing", "photo_missing", "missing_field",
      "github_error", "update_error", "photo_update_error", "field_not_selected",
      "repo_data_not_found", "create_portfolio_first" }

IsFailure(p) == p.id \in FailureIds
Failures(prompts) == SelectSeq(prompts, IsFailure)

\* the collaborator outcomes that can differ at session s: where no handler
\* reaches a collaborator call, the outcomes are not drawn
EnvsAt(s) ==
    IF s.update_mode \/ s.step \in {"edu_course_title", "edu_course_more"}
    THEN Envs ELSE {EnvOk}


Init ==
    /\ repo_info \in {EmptyDict, SaveRepoInfo(EmptyDict, "a", "a")}
    /\ session = GetSession(repo_info)
    /\ called = <<>>
    /\ reported = <<>>
    /\ skipped = {}
    /\ nDeviations = 0
    /\ script = IF repo_info = EmptyDict
                THEN [direct |-> AtStart, asked |-> AtStart]
                ELSE [direct |-> Off, asked |-> Off]
    /\ hugo_toml = None
    /\ handlers = <<>>
    /\ repo_from = "nothing"
    /\ publication = None
    /\ SESSIONS = None
    /\ repository = None

\* the contact field asked for at a cursor of the creation flow, bot.py 906-960
ContactKeyOf(step) ==
    CASE step = "contacts_email"    -> "author_email"
      [] step = "contacts_telegram" -> "author_telegram"
      [] step = "contacts_linkedin" -> "author_linkedin"
      [] step = "contacts_dribbble" -> "author_dribbble"
      [] step = "contacts_behance"  -> "author_behance"
      [] step = "contacts_cv"       -> "author_cv"

ContactSteps ==
    { "contacts_email", "contacts_telegram", "contacts_linkedin",
      "contacts_dribbble", "contacts_behance", "contacts_cv" }

\* the fields whose latest answer was the skip token, after update m
\* arrived at session s
Answered(skips, s, m) ==
    IF m.kind = "text" /\ s.step \in ContactSteps
    THEN IF m.text = Skip THEN skips \cup {ContactKeyOf(s.step)}
                          ELSE skips \ {ContactKeyOf(s.step)}
    ELSE skips

\* what the user has done about the repository name since the account
\* name was last entered, after text m took the session from s to sn:
\* nothing yet once an account name is taken (bot.py 736-760), typed it at
\* repo_name (851-853), or chose the existing repository (776-790)
RepoFrom(from, s, m, sn) ==
    IF m.kind # "text" THEN from
    ELSE IF s.step = "github_username"
            /\ sn.step \in {"github_token", "github_username_choice"}
    THEN "nothing"
    ELSE IF s.step = "repo_name" /\ sn.step = "github_token" THEN "typed"
    ELSE IF s.step = "github_username_choice" /\ m.text = LblUseExisting
            /\ sn.step = "github_token"
    THEN "reused"
    ELSE from

\* a handler may begin while others wait
MayBegin == \A i \in 1..Len(handlers) : handlers[i].n < MaxOvertakes

\* the waiting handlers, each overtaken by one more handler
Overtaken == [i \in 1..Len(handlers) |-> [handlers[i] EXCEPT !.n = @ + 1]]

\* a handler runs from its first line to its last with no other handler of
\* the user between its awaits: its result becomes the state
Deliver(m, env, r) ==
    /\ MayBegin
    /\ handlers' = Overtaken
    /\ session' = r.s
    /\ repo_info' = r.ri
    /\ called' = r.calls
    /\ reported' = Failures(r.prompts)
    /\ skipped' = Answered(skipped, session, m)
    /\ script' = [direct |-> Follow(script.direct, ScriptDirect, m, env, r.calls),
                  asked  |-> Follow(script.asked, ScriptAsAsked, m, env, r.calls)]
    /\ repo_from' = RepoFrom(repo_from, session, m, r.s)
    /\ UNCHANGED <<hugo_toml, publication, SESSIONS, repository>>

\* a handler begins and gives way at its first await: what it did so far
\* becomes the state, and the handler waits
Suspends(m, g) ==
    /\ g.k.at # "end"
    /\ MayBegin
    /\ session' = g.s
    /\ repo_info' = g.ri
    /\ called' = g.calls
    /\ reported' = Failures(g.prompts)
    /\ skipped' = Answered(skipped, session, m)
    /\ script' = [direct |-> Off, asked |-> Off]
    /\ repo_from' = IF g.k.at = "752" THEN "nothing" ELSE repo_from
    /\ handlers' = Append(Overtaken, [k |-> g.k, n |-> 0])
    /\ UNCHANGED <<hugo_toml, publication, SESSIONS, repository>>

\* the sequence without its i-th element
Without(seq, i) == SubSeq(seq, 1, i - 1) \o SubSeq(seq, i + 1, Len(seq))

\* /start or /restart (cmd_start, bot.py 163-191): handled with no other
\* handler of the user between its awaits, or giving way at the first
Start ==
    /\ nDeviations < MaxDeviations
    /\ nDeviations' = nDeviations + 1
    /\ \/ Deliver([kind |-> "start", text |-> None], EnvOk, CmdStart(session, repo_info))
       \/ Suspends([kind |-> "start", text |-> None], CmdStartBegins(session, repo_info))

\* /update (cmd_update, bot.py 214-255: no await before its last write)
Update ==
    /\ nDeviations < MaxDeviations
    /\ nDeviations' = nDeviations + 1
    /\ Deliver([kind |-> "update", text |-> None], EnvOk, CmdUpdate(session, repo_info))

\* a photo (handle_photo, bot.py 258-325)
Photo ==
    \E photo \in Photos, env \in EnvsAt(session) :
        \/ /\ Deliver([kind |-> "photo", text |-> photo], env,
                      HandlePhoto(session, repo_info, photo, env))
           /\ UNCHANGED nDeviations
        \/ /\ nDeviations < MaxDeviations
           /\ nDeviations' = nDeviations + 1
           /\ Suspends([kind |-> "photo", text |-> photo],
                       HandlePhotoBegins(session, repo_info, photo, env))

\* whether text at session s leaves the straight path
Deviates(s, text) ==
    \/ s.step \in OptionalSteps /\ text # Skip
    \/ s.step \in MoreSteps /\ IsAffirmative(text)
    \/ s.step = "github_username" /\ text = OtherAccount

\* a text message (dialog_flow, bot.py 484-1137)
Text ==
    \E text \in Inputs(session) \cup ScriptTexts(script.direct, ScriptDirect)
                               \cup ScriptTexts(script.asked, ScriptAsAsked),
       env \in EnvsAt(session) :
        \/ /\ Deviates(session, text) => nDeviations < MaxDeviations
           /\ nDeviations' = IF Deviates(session, text) THEN nDeviations + 1 ELSE nDeviations
           /\ Deliver([kind |-> "text", text |-> text], env,
                      DialogFlow(session, repo_info, text, env))
        \/ /\ nDeviations < MaxDeviations
           /\ nDeviations' = nDeviations + 1
           /\ Suspends([kind |-> "text", text |-> text],
                       DialogFlowBegins(session, repo_info, text, env))

\* the await of a waiting handler returns: the handler goes on to its next
\* await or to its end
Resumes ==
    \E i \in 1..Len(handlers) :
        LET g == Continues(handlers[i].k, session, repo_info)
        IN  /\ session' = g.s
            /\ repo_info' = g.ri
            /\ called' = g.calls
            /\ reported' = Failures(g.prompts)
            /\ handlers' = IF g.k.at = "end" THEN Without(handlers, i)
                           ELSE [handlers EXCEPT ![i].k = g.k]
            /\ UNCHANGED <<skipped, nDeviations, script, repo_from, hugo_toml,
                           publication, SESSIONS, repository>>

Next == Start \/ Update \/ Photo \/ Text \/ Resumes

Spec == Init /\ [][Next]_vars

----------------------------------------------------------------------------
(* Finalization as a function of the session: _finalize_profile_and_deploy *)
(* applied to sessions it is not handed by dialog_flow as well, with any   *)
(* of the GitHub data, the photo and the required fields absent.  The      *)
(* function gives way at the await of bot.py 404, between building the     *)
(* profile and publishing it: other updates of the user are handled while  *)
(* it waits, whole or up to an await of their own, and it publishes from   *)
(* the session as it is when it goes on.                                   *)

ProfileDatas ==
    { [k \in keys |-> "a"] :
        keys \in SUBSET {RequiredProfileKeys[i] : i \in 1..Len(RequiredProfileKeys)} }

CareerLists ==
    { <<>>,
      << [k \in {"company", "role", "start", "end", "description"} |-> "a"] >>,
      << [k \in {"role", "start", "end", "description"} |-> "a"] >> }

FinalizeSessions ==
    { [UserSession EXCEPT !.github_token = tok, !.github_username = user,
                          !.repo_name = repo, !.profile_data = pd,
                          !.author_image_bytes = img, !.career_items = items,
                          !.step = step] :
        tok \in {None, "a"}, user \in {None, "a"}, repo \in {None, "a"},
        pd \in ProfileDatas, img \in {None, "jpg"}, items \in CareerLists,
        step \in {"edu_course_title", "edu_course_more"} }

InitFinalize ==
    /\ session \in FinalizeSessions
    /\ repo_info = EmptyDict
    /\ called = <<>>
    /\ reported = <<>>
    /\ skipped = {}
    /\ nDeviations = 0
    /\ script = [direct |-> Off, asked |-> Off]
    /\ hugo_toml = None
    /\ handlers = <<>>
    /\ repo_from = "nothing"
    /\ publication = None
    /\ SESSIONS = None
    /\ repository = None

\* _finalize_profile_and_deploy (bot.py 328-481): run with no other handler
\* of the user between its awaits, or giving way at the await of 404
Finalize ==
    \E env \in Envs :
        \/ /\ Deliver([kind |-> "finalize", text |-> None], env,
                      FinalizeProfileAndDeploy(session, repo_info, env))
           /\ UNCHANGED nDeviations
        \/ /\ Suspends([kind |-> "finalize", text |-> None],
                       FinalizeBegins(session, repo_info, env))
           /\ UNCHANGED nDeviations

\* another update of the user arrives, before a finalization or while one
\* waits: its handler runs with no other handler between its awaits, or
\* gives way at its first
OtherUpdate ==
    /\ nDeviations < MaxDeviations
    /\ nDeviations' = nDeviations + 1
    /\ \/ Deliver([kind |-> "start", text |-> None], EnvOk, CmdStart(session, repo_info))
       \/ Suspends([kind |-> "start", text |-> None], CmdStartBegins(session, repo_info))
       \/ Deliver([kind |-> "update", text |-> None], EnvOk, CmdUpdate(session, repo_info))
       \/ \E photo \in Photos, env \in EnvsAt(session) :
              \/ Deliver([kind |-> "photo", text |-> photo], env,
                         HandlePhoto(session, repo_info, photo, env))
              \/ Suspends([kind |-> "photo", text |-> photo],
                          HandlePhotoBegins(session, repo_info, photo, env))
       \/ \E text \in Inputs(session), env \in EnvsAt(session) :
              \/ Deliver([kind |-> "text", text |-> text], env,
                         DialogFlow(session, repo_info, text, env))
              \/ Suspends([kind |-> "text", text |-> text],
                          DialogFlowBegins(session, repo_info, text, env))

NextFinalize == Finalize \/ OtherUpdate \/ Resumes

SpecFinalize == InitFinalize /\ [][NextFinalize]_vars

----------------------------------------------------------------------------
(* The claims.  Where a claim speaks of what a message does to the session, *)
(* the formula asks it of every message the user can send at the current   *)
(* state: Handled and PhotoHandled are what the handlers would return.      *)

Handled(text, env) == DialogFlow(session, repo_info, text, env)
PhotoHandled(photo, env) == HandlePhoto(session, repo_info, photo, env)

\* the order of the initial linear flow
LinearOrder ==
    << "github_username", "github_token", "repo_name", "author_name",
       "author_surname", "author_grade", "author_city", "author_intro",
       "contacts_email", "contacts_telegram", "contacts_linkedin",
       "contacts_dribbble", "contacts_behance", "contacts_cv" >>

LinearSteps == {LinearOrder[i] : i \in 1..Len(LinearOrder)}
OrderIndex(step) == CHOOSE i \in 1..Len(LinearOrder) : LinearOrder[i] = step

\* C1: in the initial linear flow (creation, not update mode) no text
\* message moves the cursor to a state earlier in the order.
C1_NoBackwardMoveOnText ==
    (session.step \in LinearSteps /\ ~session.update_mode) =>
        \A text \in Inputs(session), env \in EnvsAt(session) :
            LET r == Handled(text, env)
            IN  r.s.step \in LinearSteps =>
                    OrderIndex(r.s.step) >= OrderIndex(session.step)

\* the calls of the publish collaborator among done, and those that succeeded
PublishCalls(done) == SelectSeq(done, LAMBDA c : c.op = "apply_profile_to_repo")
Published(done) ==
    SelectSeq(done, LAMBDA c : c.op = "apply_profile_to_repo" /\ c.result = "ok")

\* a script has been followed to its end
Completed(tr, scr) == tr.on /\ tr.pos = Len(scr)

\* the last handler published once, successfully, a profile with nc career
\* entries, nu universities and nk courses
PublishedProfile(nc, nu, nk) ==
    /\ Len(PublishCalls(called)) = 1
    /\ Len(Published(called)) = 1
    /\ Len(Published(called)[1].profile.career_items) = nc
    /\ Len(Published(called)[1].profile.universities) = nu
    /\ Len(Published(called)[1].profile.courses) = nk

\* C2 as stated: the run from a fresh session in which the user sends
\* username, token, repository name, five identity fields, six skips, a
\* photo, one career entry, "no" and the 'none' sentinel ends with publish
\* invoked exactly once, with 1 career entry, 0 universities, 0 courses.
C2_DirectRunPublishes ==
    Completed(script.direct, ScriptDirect) =>
        /\ script.direct.publishes = 1
        /\ PublishedProfile(1, 0, 0)

\* C2 amended: the run in which the user also sends the token a second time
\* when it is asked for again after the repository name, and one university
\* entry, ends with publish invoked exactly once, with 1 career entry,
\* 1 university and 0 courses.
C2_AskedRunPublishes ==
    Completed(script.asked, ScriptAsAsked) =>
        /\ script.asked.publishes = 1
        /\ PublishedProfile(1, 1, 0)

\* the amended run has been followed to its end
C2_AskedRunCompleted == Completed(script.asked, ScriptAsAsked)

\* C3: a finalization whose publish call succeeds leaves the cursor at
\* github_username, profile_data, the three collections and the image holder
\* empty and update_mode false, while github_token, github_username and
\* repo_name keep the values they had when publish was invoked (the token
\* is the one the call carried).
C3_FrameAfterPublish ==
    [][ Len(Published(called')) > 0 =>
          /\ session'.step = "github_username"
          /\ session'.profile_data = EmptyDict
          /\ session'.career_items = <<>>
          /\ session'.universities = <<>>
          /\ session'.courses = <<>>
          /\ session'.author_image_bytes = None
          /\ session'.update_mode = FALSE
          /\ session'.github_token = session.github_token
          /\ session'.github_token = Published(called')[1].token
          /\ session'.github_username = session.github_username
          /\ session'.repo_name = session.repo_name ]_vars

\* a publish call has just succeeded
C3_PublishSucceeded == Len(Published(called)) > 0

\* the texts that trigger finalization at session s
Finalizes(s, text) ==
    \/ s.step = "edu_course_title" /\ IsNoneSentinel(text)
    \/ s.step = "edu_course_more" /\ ~IsAffirmative(text)

\* C4: a handler whose publish call fails leaves the session and the durable
\* record as they were, calls publish once and reports the failure; and
\* publish is called only by a text that triggers finalization (at once, or
\* when its await of the 'building' answer returns), never by a command or
\* a photo.
C4_PublishFailureKeepsSession ==
    /\ [](/\ \A text \in Inputs(session), env \in EnvsAt(session) :
               LET r == Handled(text, env)
               IN  /\ Len(PublishCalls(r.calls)) > 0 =>
                         /\ Finalizes(session, text)
                         /\ Len(PublishCalls(r.calls)) = 1
                   /\ (Len(PublishCalls(r.calls)) > 0 /\ Len(Published(r.calls)) = 0) =>
                         /\ r.s = session
                         /\ r.ri = repo_info
                         /\ Len(r.calls) = 1
          /\ \A photo \in Photos, env \in EnvsAt(session) :
               PublishCalls(PhotoHandled(photo, env).calls) = <<>>
          /\ PublishCalls(CmdStart(session, repo_info).calls) = <<>>
          /\ PublishCalls(CmdUpdate(session, repo_info).calls) = <<>>
          /\ \A i \in 1..Len(handlers) :
               PublishCalls(Continues(handlers[i].k, session, repo_info).calls) # <<>>
                   => handlers[i].k.at = "404")
    /\ [][ (Len(PublishCalls(called')) > 0 /\ Len(Published(called')) = 0) =>
             /\ session' = session
             /\ repo_info' = repo_info
             /\ Len(called') = 1
             /\ reported' = <<PromptArg("github_error", called'[1].result)>> ]_vars

\* a publish call has just failed at the first course-title prompt
C4_PublishFailed ==
    /\ Len(PublishCalls(called)) > 0 /\ Len(Published(called)) = 0
    /\ session.step = "edu_course_title"

\* a required field is absent from the session's profile_data
LacksRequired(s) == FirstMissingIn(RequiredProfileKeys, s.profile_data) # None
HasGithubData(s) ==
    Truthy(s.github_token) /\ Truthy(s.github_username) /\ Truthy(s.repo_name)

\* C5 as stated: finalization of a session whose profile_data lacks a
\* required field reports a missing-field error, does not call publish and
\* leaves the session unchanged.
C5_MissingFieldReported ==
    LacksRequired(session) =>
        \A env \in Envs :
            LET r == FinalizeProfileAndDeploy(session, repo_info, env)
            IN  /\ Len(r.prompts) = 1 /\ r.prompts[1].id = "missing_field"
                /\ r.calls = <<>>
                /\ r.s = session

\* C5 amended: finalization of a session that has the GitHub data and the
\* photo and whose profile_data lacks a required field reports the
\* missing-field error naming the first absent field, calls no collaborator
\* and leaves session and durable record unchanged; when the GitHub data or
\* the photo is absent it reports that instead, again without a call or a
\* change.
C5_MissingFieldReportedAfterChecks ==
    /\ LacksRequired(session) =>
          \A env \in Envs :
              LET r == FinalizeProfileAndDeploy(session, repo_info, env)
              IN  /\ r.calls = <<>>
                  /\ r.s = session
                  /\ r.ri = repo_info
                  /\ r.prompts =
                        IF ~HasGithubData(session) THEN <<Prompt("github_data_missing")>>
                        ELSE IF ~Truthy(session.author_image_bytes)
                        THEN <<Prompt("photo_missing")>>
                        ELSE <<PromptArg("missing_field",
                                FirstMissingIn(RequiredProfileKeys, session.profile_data))>>
    /\ (reported # <<>> /\ reported[1].id = "missing_field") =>
          /\ called = <<>>
          /\ HasGithubData(session) /\ Truthy(session.author_image_bytes)
          /\ reported = <<PromptArg("missing_field", MissingKey(session))>>

\* finalization has reported a required field of profile_data missing
C5_MissingFieldWasReported ==
    /\ reported # <<>> /\ reported[1].id = "missing_field"
    /\ LacksRequired(session)

\* the cursors at which a text can trigger finalization
FinalizationSteps == {"edu_course_title", "edu_course_more"}

\* C6: whatever commands, texts and photos led there, at a cursor where a
\* text triggers finalization profile_data holds the five required fields
\* and the image holder is non-empty, no handler reports a missing field or
\* a missing photo, and none has been reported.
C6_FinalizationFindsFields ==
    /\ session.step \in FinalizationSteps =>
          /\ \A i \in 1..Len(RequiredProfileKeys) :
                Has(session.profile_data, RequiredProfileKeys[i])
          /\ Truthy(session.author_image_bytes)
          /\ MissingKey(session) = None
          /\ \A text \in Inputs(session), env \in EnvsAt(session) :
                \A i \in 1..Len(Handled(text, env).prompts) :
                    Handled(text, env).prompts[i].id \notin {"missing_field", "photo_missing"}
    /\ \A i \in 1..Len(reported) :
          reported[i].id \notin {"missing_field", "photo_missing"}

\* the calls of the remote-update collaborator among done
UpdateCalls(done) == SelectSeq(done, LAMBDA c : c.op = "update_hugo_toml_field")

\* C7: in the update sub-flow, once the compound option was chosen and the
\* name sent (the cursor is update_author_surname, the name is held), the
\* next text, with the collaborators succeeding, calls the remote update
\* exactly twice, for author_name with the name and for author_surname with
\* that text, and returns the session to idle.
C7_CompoundUpdateCallsTwice ==
    (session.update_mode /\ session.step = "update_author_surname"
        /\ Has(session.profile_data, "temp_name")) =>
        \A text \in Values :
            LET r == Handled(text, EnvOk)
                u == UpdateCalls(r.calls)
            IN  /\ Len(u) = 2
                /\ u[1].field_path = "author_name"
                /\ u[1].value = session.profile_data["temp_name"]
                /\ u[2].field_path = "author_surname"
                /\ u[2].value = text
                /\ r.s.step = "github_username"
                /\ r.s.update_mode = FALSE

\* the option labels of a menu state
OptionLabels(step) ==
    CASE step = "start_choice" -> StartChoiceLabels
      [] step = "github_username_choice" -> UsernameChoiceLabels
      [] step = "update_menu" -> UpdateMenuLabels \cup {LblCancel}
      [] step = "update_contacts_menu" -> DOMAIN FieldMap \cup {LblCancel}

MenuSteps ==
    {"start_choice", "github_username_choice", "update_menu", "update_contacts_menu"}

\* C8: in a menu state a text that is not one of the state's option labels
\* changes nothing in the session and makes no collaborator call.
C8_UnmatchedMenuTextIsNoOp ==
    session.step \in MenuSteps =>
        \A text \in Inputs(session) \ OptionLabels(session.step),
           env \in EnvsAt(session) :
            /\ Handled(text, env).s = session
            /\ Handled(text, env).calls = <<>>

\* C9: after a handler in which a remote field update failed, the failure
\* has been reported and the session is idle: cursor github_username,
\* update_mode false, update_field cleared.
C9_FailedUpdateReturnsToIdle ==
    (\E i \in 1..Len(called) :
        called[i].op = "update_hugo_toml_field" /\ called[i].result # "ok") =>
        /\ reported # <<>>
        /\ session.step = "github_username"
        /\ session.update_mode = FALSE
        /\ session.update_field = None

\* C10: at the cursor author_photo a text leaves the session unchanged and
\* is answered by no prompt; a photo at any cursor other than author_photo
\* (and other than update_author_photo in update mode) leaves the session
\* unchanged and is answered by no prompt.
C10_OnlyPhotoAtAuthorPhoto ==
    /\ session.step = "author_photo" =>
          /\ \A text \in Inputs(session), env \in EnvsAt(session) :
                /\ Handled(text, env).s = session
                /\ Handled(text, env).prompts = <<>>
          /\ \A photo \in Photos, env \in EnvsAt(session) :
                (~session.update_mode) =>
                    /\ PhotoHandled(photo, env).s.step = "career_company"
                    /\ PhotoHandled(photo, env).s.author_image_bytes = photo
    /\ (session.step # "author_photo"
          /\ ~(session.update_mode /\ session.step = "update_author_photo")) =>
          \A photo \in Photos, env \in EnvsAt(session) :
              /\ PhotoHandled(photo, env).s = session
              /\ PhotoHandled(photo, env).prompts = <<>>

\* the value-entry states of the update sub-flow
ValueEntrySteps ==
    { "update_author_name", "update_author_surname", "update_author_grade",
      "update_author_city", "update_author_intro" }
    \cup { UpdateStepOf(f) : f \in ContactFields }

\* C11: a handler calls a collaborator only (a) for a text that triggers
\* finalization, (b) for a text at a value-entry state of the update
\* sub-flow in update mode, (c) for a photo at update_author_photo in update
\* mode; a command calls none.
C11_CallsOnlyInThreeSituations ==
    /\ \A text \in Inputs(session), env \in EnvsAt(session) :
          Handled(text, env).calls # <<>> =>
              \/ Finalizes(session, text)
              \/ session.update_mode /\ session.step \in ValueEntrySteps
    /\ \A photo \in Photos, env \in EnvsAt(session) :
          PhotoHandled(photo, env).calls # <<>> =>
              session.update_mode /\ session.step = "update_author_photo"
    /\ CmdStart(session, repo_info).calls = <<>>
    /\ CmdUpdate(session, repo_info).calls = <<>>

\* the fixed set of cursor values
AllSteps ==
    LinearSteps \cup {"start_choice", "github_username_choice", "author_photo"}
    \cup CareerSteps \cup UniversitySteps \cup CourseSteps \cup UpdateSteps

\* text at session s is taken by a branch of dialog_flow
Recognised(s, text) ==
    \/ s.step = "start_choice" /\ text \in StartChoiceLabels
    \/ s.step = "update_need_token"
    \/ s.update_mode /\ (text = LblCancel \/ s.step \in UpdateSteps)
    \/ s.step = "github_username_choice" /\ text \in UsernameChoiceLabels
    \/ s.step \in LinearSteps \cup CareerSteps \cup UniversitySteps \cup CourseSteps

\* C12: the cursor is always one of the fixed step names, and a text that
\* no branch of the handler takes is answered with the 'dialog
\* desynchronized' prompt alone, session and durable record unchanged, no
\* collaborator called; a text that a branch takes is not answered with it.
C12_CursorEnumeratedAndFallback ==
    /\ session.step \in AllSteps
    /\ \A text \in Inputs(session), env \in EnvsAt(session) :
          LET r == Handled(text, env)
          IN  IF Recognised(session, text)
              THEN \A i \in 1..Len(r.prompts) : r.prompts[i].id # "dialog_desync"
              ELSE /\ r.prompts = <<Prompt("dialog_desync")>>
                   /\ r.s = session
                   /\ r.ri = repo_info
                   /\ r.calls = <<>>
    /\ reported = <<Prompt("dialog_desync")>> =>
          session.step \in {"start_choice", "github_username_choice", "author_photo"}

\* a text at a menu cursor that is none of its labels was answered with the
\* 'dialog desynchronized' prompt
C12_FallbackAnswered ==
    /\ reported = <<Prompt("dialog_desync")>>
    /\ session.step = "github_username_choice"

\* the affirmative tokens in some of their cases ("DA" for "ДА", "Da" for "Да")
AffirmativeTexts == {"da", "DA", "Da", "yes", "YES", "Yes", "yEs", "y", "Y"}

\* the first field of the sub-record a 'repeat?' state belongs to, and the
\* first cursor of the section after it
FirstFieldOf(step) ==
    CASE step = "career_more" -> "career_company"
      [] step = "edu_university_more" -> "edu_university_name"
      [] step = "edu_course_more" -> "edu_course_title"

\* C13: at a 'repeat?' state an affirmative token, in any case, moves the
\* cursor to the first field of the same sub-record and leaves the three
\* collections as they are; any other text moves on: from career_more to
\* edu_university_name, from edu_university_more to edu_course_title, from
\* edu_course_more to finalization (the publish call).
C13_RepeatDecision ==
    session.step \in MoreSteps =>
        \A text \in Inputs(session), env \in EnvsAt(session) :
            LET r == Handled(text, env)
            IN  IF text \in AffirmativeTexts
                THEN /\ r.s.step = FirstFieldOf(session.step)
                     /\ r.s.career_items = session.career_items
                     /\ r.s.universities = session.universities
                     /\ r.s.courses = session.courses
                ELSE /\ session.step = "career_more" => r.s.step = "edu_university_name"
                     /\ session.step = "edu_university_more" => r.s.step = "edu_course_title"
                     /\ session.step = "edu_course_more" => Len(PublishCalls(r.calls)) = 1

\* the 'none' sentinel in some of its cases ("NET" for "НЕТ", "Net" for "Нет")
NoneTexts == {"net", "NET", "Net", "no", "NO", "No", "nO", "none", "NONE", "None"}

\* C14: at edu_course_title the 'none' sentinel, in any case, triggers
\* finalization directly (one publish call, whose profile has the courses
\* collected so far and no more) and leaves the pending course slot as it
\* is; any other text becomes the title of a new pending course and moves
\* the cursor to edu_course_url.
C14_CourseTitleSentinel ==
    session.step = "edu_course_title" =>
        \A text \in Inputs(session), env \in EnvsAt(session) :
            LET r == Handled(text, env)
            IN  IF text \in NoneTexts
                THEN /\ Len(PublishCalls(r.calls)) = 1
                     /\ Len(r.calls[1].profile.courses) = Len(session.courses)
                     /\ r.s.pending_course = session.pending_course
                     /\ r.s.step \in {"edu_course_title", "github_username"}
                ELSE /\ r.s.pending_course = Put(EmptyDict, "title", text)
                     /\ r.s.courses = session.courses
                     /\ r.s.step = "edu_course_url"

\* the final steps of the three sub-records
FinalSteps == {"career_description", "edu_university_note", "edu_course_certificate"}

\* the dict rec holds every entry of the dict pending
Extends(rec, pending) ==
    \A k \in DOMAIN pending : Has(rec, k) /\ rec[k] = pending[k]

\* the three collections of session t have the lengths they have in s
SameLengths(s, t) ==
    /\ Len(t.career_items) = Len(s.career_items)
    /\ Len(t.universities) = Len(s.universities)
    /\ Len(t.courses) = Len(s.courses)

\* C15: the text handled at the final step of a sub-record appends the
\* pending record to its collection once and empties the pending slot, the
\* other two collections unchanged; no other text, no photo and no command
\* changes the length of a collection, except the reset after a successful
\* publish, which empties all three.
C15_AppendOnFinalStep ==
    /\ \A text \in Inputs(session), env \in EnvsAt(session) :
          LET r == Handled(text, env)
          IN  CASE session.step = "career_description" ->
                     /\ Len(r.s.career_items) = Len(session.career_items) + 1
                     /\ Extends(r.s.career_items[Len(r.s.career_items)], session.pending_career)
                     /\ SubSeq(r.s.career_items, 1, Len(session.career_items)) = session.career_items
                     /\ r.s.pending_career = EmptyDict
                     /\ r.s.universities = session.universities
                     /\ r.s.courses = session.courses
                [] session.step = "edu_university_note" ->
                     /\ Len(r.s.universities) = Len(session.universities) + 1
                     /\ Extends(r.s.universities[Len(r.s.universities)], session.pending_university)
                     /\ SubSeq(r.s.universities, 1, Len(session.universities)) = session.universities
                     /\ r.s.pending_university = EmptyDict
                     /\ r.s.career_items = session.career_items
                     /\ r.s.courses = session.courses
                [] session.step = "edu_course_certificate" ->
                     /\ Len(r.s.courses) = Len(session.courses) + 1
                     /\ Extends(r.s.courses[Len(r.s.courses)], session.pending_course)
                     /\ SubSeq(r.s.courses, 1, Len(session.courses)) = session.courses
                     /\ r.s.pending_course = EmptyDict
                     /\ r.s.career_items = session.career_items
                     /\ r.s.universities = session.universities
                [] OTHER ->
                     \/ SameLengths(session, r.s)
                     \/ /\ Len(Published(r.calls)) > 0
                        /\ r.s.career_items = <<>>
                        /\ r.s.universities = <<>>
                        /\ r.s.courses = <<>>
    /\ \A photo \in Photos, env \in EnvsAt(session) :
          SameLengths(session, PhotoHandled(photo, env).s)
    /\ SameLengths(session, CmdStart(session, repo_info).s)
    /\ SameLengths(session, CmdUpdate(session, repo_info).s)

\* C16: a published profile has no value for a contact whose latest answer
\* at its state was the skip token, whatever preceded that answer.
C16_SkippedContactUnpublished ==
    \A i \in 1..Len(Published(called)) :
        \A f \in skipped : Published(called)[i].profile[f] = None

----------------------------------------------------------------------------
(* The field mutator: update_hugo_toml_field of github_client.py.  A text  *)
(* is a sequence of characters (one-character strings); a position p is    *)
(* the index of the next character to read, EndOf(d) past the last one.    *)
(* The three regular expressions of the function are computed as           *)
(* Python's backtracking matcher computes them: leftmost start, greedy     *)
(* repetitions, alternatives in order.                                     *)

\* \s of a str pattern: the characters str.isspace() holds of.  Those that
\* have no escape here are written by their code points.
Whitespace ==
    { " ", "\t", "\n", "\r", "\f", "U+000B",
      "U+001C", "U+001D", "U+001E", "U+001F", "U+0085", "U+00A0", "U+1680",
      "U+2000", "U+2001", "U+2002", "U+2003", "U+2004", "U+2005", "U+2006",
      "U+2007", "U+2008", "U+2009", "U+200A", "U+2028", "U+2029", "U+202F",
      "U+205F", "U+3000" }
Quotes == {"\"", "'"}                       \* ["\']
Letters ==                                  \* [a-zA-Z_]
    { "a", "b", "c", "d", "e", "f", "g", "h", "i", "j", "k", "l", "m",
      "n", "o", "p", "q", "r", "s", "t", "u", "v", "w", "x", "y", "z",
      "A", "B", "C", "D", "E", "F", "G", "H", "I", "J", "K", "L", "M",
      "N", "O", "P", "Q", "R", "S", "T", "U", "V", "W", "X", "Y", "Z", "_" }

\* re.match / re.search found nothing
NoMatch == 0

EndOf(d) == Len(d) + 1

MaxOf(S) == CHOOSE x \in S : \A y \in S : y <= x
MinOf(S) == CHOOSE x \in S : \A y \in S : x <= y

\* the literal word at position p
HasAt(d, p, word) ==
    /\ p + Len(word) - 1 <= Len(d)
    /\ SubSeq(d, p, p + Len(word) - 1) = word

\* \s* taken greedily from p: the first position not holding whitespace
SpaceEnd(d, p) ==
    CHOOSE e \in p..EndOf(d) :
        /\ \A i \in p..(e - 1) : d[i] \in Whitespace
        /\ e = EndOf(d) \/ d[e] \notin Whitespace

\* \s*$\n? from p under re.MULTILINE: the greedy \s* runs to the end of
\* the text, where $ holds, or is given back to the last newline of the
\* run, where $ holds and \n? takes the newline.
LineEnd(d, p) ==
    LET w == SpaceEnd(d, p)
        nls == {i \in p..(w - 1) : d[i] = "\n"}
    IN  IF w = EndOf(d) THEN w
        ELSE IF nls = {} THEN NoMatch
        ELSE MaxOf(nls) + 1

\* [^"'\n]+\s*$\n? from b: the greedy run stops at a quote, a newline or
\* the end of the text; before a quote no shorter run reaches an end of
\* line either.
BareValue(d, b) ==
    IF b > Len(d) \/ d[b] \in Quotes \cup {"\n"} THEN NoMatch
    ELSE LET e == CHOOSE e \in (b + 1)..EndOf(d) :
                      /\ \A i \in b..(e - 1) : d[i] \notin Quotes \cup {"\n"}
                      /\ e = EndOf(d) \/ d[e] \in Quotes \cup {"\n"}
         IN  IF e <= Len(d) /\ d[e] \in Quotes THEN NoMatch ELSE LineEnd(d, e)

\* ["'](?:[^"']|\\["'])*["']\s*$\n? from the quote at q: the loop passes a
\* quote only together with a backslash before it, so the closing quote is
\* a quote all quotes before which are escaped; the matcher tries them
\* from the left and takes the first that is followed by an end of line.
QuotedValue(d, q) ==
    LET closes == {c \in (q + 1)..Len(d) :
                      /\ d[c] \in Quotes
                      /\ \A j \in (q + 1)..(c - 1) :
                             d[j] \in Quotes => (j - 1 > q /\ d[j - 1] = "\\")}
        ends == {c \in closes : LineEnd(d, c + 1) # NoMatch}
    IN  IF ends = {} THEN NoMatch ELSE LineEnd(d, MinOf(ends) + 1)

\* (?:quoted|bare)\s*$\n? from k
ValueAt(d, k) ==
    IF k <= Len(d) /\ d[k] \in Quotes THEN QuotedValue(d, k) ELSE BareValue(d, k)

\* \s*(?:quoted|bare)\s*$\n? from p: the greedy \s* gives characters back
\* one at a time until a value matches
FieldValueEnd(d, p) ==
    LET w == SpaceEnd(d, p)
        starts == {k \in p..w : ValueAt(d, k) # NoMatch}
    IN  IF starts = {} THEN NoMatch ELSE ValueAt(d, MaxOf(starts))

\* remove_pattern matched at position i: the end of the match
RemovePatternAt(d, i, field_path) ==
    IF ~(i = 1 \/ d[i - 1] = "\n") THEN NoMatch
    ELSE LET p1 == SpaceEnd(d, i)
         IN  IF ~HasAt(d, p1, field_path) THEN NoMatch
             ELSE LET p2 == SpaceEnd(d, p1 + Len(field_path))
                  IN  IF ~HasAt(d, p2, <<"=">>) THEN NoMatch
                      ELSE FieldValueEnd(d, p2 + 1)

\* re.sub(remove_pattern, "", current_content, flags=re.MULTILINE)
RECURSIVE RemoveFrom(_, _, _)
RemoveFrom(d, i, field_path) ==
    IF i > Len(d) THEN <<>>
    ELSE LET e == RemovePatternAt(d, i, field_path)
         IN  IF e = NoMatch THEN <<d[i]>> \o RemoveFrom(d, i + 1, field_path)
             ELSE RemoveFrom(d, e, field_path)

RemoveField(d, field_path) == RemoveFrom(d, 1, field_path)

\* re.sub(r'\n{3,}', '\n\n', updated_content)
RECURSIVE CollapseFrom(_, _)
CollapseFrom(d, i) ==
    IF i > Len(d) THEN <<>>
    ELSE IF d[i] # "\n" THEN <<d[i]>> \o CollapseFrom(d, i + 1)
    ELSE LET e == CHOOSE e \in (i + 1)..EndOf(d) :
                      /\ \A j \in i..(e - 1) : d[j] = "\n"
                      /\ e = EndOf(d) \/ d[e] # "\n"
         IN  (IF e - i >= 3 THEN <<"\n", "\n">> ELSE SubSeq(d, i, e - 1))
               \o CollapseFrom(d, e)

CollapseNewlines(d) == CollapseFrom(d, 1)

Marker == <<"[", "p", "a", "r", "a", "m", "s", "]">>

\* params_section_pattern matched at position i: the end of the match
ParamsSectionAt(d, i) ==
    IF ~HasAt(d, i, Marker) THEN NoMatch
    ELSE LET m == i + Len(Marker)
             w == SpaceEnd(d, m)
             nls == {j \in m..(w - 1) : d[j] = "\n"}
         IN  IF nls = {} THEN NoMatch ELSE MaxOf(nls) + 1

\* re.search(params_section_pattern, updated_content): match.end()
InsertPos(d) ==
    LET starts == {i \in 1..Len(d) : ParamsSectionAt(d, i) # NoMatch}
    IN  IF starts = {} THEN NoMatch ELSE ParamsSectionAt(d, MinOf(starts))

\* updated_content[insert_pos:insert_pos+200]
LookAhead == 200

NextLines(d, p) ==
    SubSeq(d, p, IF p + LookAhead - 1 <= Len(d) THEN p + LookAhead - 1 ELSE Len(d))

\* re.search(r'\n(\s+)(?:[a-zA-Z_])', next_lines): group 1, or two spaces
Indent(next_lines) ==
    LET starts == {n \in 1..Len(next_lines) :
                      /\ next_lines[n] = "\n"
                      /\ LET w == SpaceEnd(next_lines, n + 1)
                         IN  /\ w > n + 1
                             /\ w <= Len(next_lines)
                             /\ next_lines[w] \in Letters}
    IN  IF starts = {} THEN <<" ", " ">>
        ELSE LET n == MinOf(starts)
             IN  SubSeq(next_lines, n + 1, SpaceEnd(next_lines, n + 1) - 1)

\* str.replace of one character
RECURSIVE Replace(_, _, _)
Replace(t, c, with) ==
    IF t = <<>> THEN <<>>
    ELSE (IF Head(t) = c THEN with ELSE <<Head(t)>>) \o Replace(Tail(t), c, with)

\* _toml_string
TomlString(v) ==
    LET escaped == Replace(Replace(Replace(Replace(v,
                       "\\", <<"\\", "\\">>),
                       "\"", <<"\\", "\"">>),
                       "\n", <<"\\", "n">>),
                       "\r", <<>>)
    IN  <<"\"">> \o escaped \o <<"\"">>

\* field_line
FieldLine(indent, field_path, value) ==
    indent \o field_path \o <<" ", "=", " ">> \o TomlString(value) \o <<"\n">>

SectionNotFound == "GitHubError: Could not find [params] section in hugo.toml"

\* the outcomes of the two GitHub requests of the mutator
Apis == {"ok", "get_fails", "upsert_fails"}

\* update_hugo_toml_field applied to the remote document d: the error it
\* raises (None when it returns), the contents it upserts and the remote
\* document afterwards
UpdateHugoTomlField(d, field_path, value, api) ==
    IF api = "get_fails"
    THEN [error |-> ErrApi, upserts |-> <<>>, content |-> d]
    ELSE LET removed == CollapseNewlines(RemoveField(d, field_path))
             p == InsertPos(removed)
         IN  IF p = NoMatch
             THEN [error |-> SectionNotFound, upserts |-> <<>>, content |-> d]
             ELSE LET updated_content ==
                          SubSeq(removed, 1, p - 1)
                            \o FieldLine(Indent(NextLines(removed, p)), field_path, value)
                            \o SubSeq(removed, p, Len(removed))
                  IN  IF api = "upsert_fails"
                      THEN [error |-> ErrApi, upserts |-> <<updated_content>>,
                            content |-> d]
                      ELSE [error |-> None, upserts |-> <<updated_content>>,
                            content |-> updated_content]

----------------------------------------------------------------------------
(* The field mutator as a function of the remote document: documents of a  *)
(* few lines, with and without the section marker, with earlier            *)
(* occurrences of the field in several notations, and values with the      *)
(* characters the escaping is about.                                       *)

MaxLines == 3
\* the lines of a document with a line of SpacedShapes
MaxSpacedLines == 2
MaxCalls == 2

AuthorCity == <<"a", "u", "t", "h", "o", "r", "_", "c", "i", "t", "y">>

LineShapes ==
    { Marker,                                                \* [params]
      <<>>,                                                   \* an empty line
      <<" ", " ">> \o AuthorCity \o <<" ", "=", " ", "\"", "B", "\"">>,
                                                             \*   author_city = "B"
      AuthorCity \o <<" ", "=", " ", "'", "B", "'">>,       \* author_city = 'B'
      AuthorCity \o <<" ", "=", " ", "\"", "a", "'", "b", "\"">>,
                                                             \* author_city = "a'b"
      AuthorCity \o <<" ", "=", " ", "7">>,                  \* author_city = 7
      <<" ", " ", " ", " ", "t", " ", "=", " ", "\"", "B", "\"">>,
                                                             \*     t = "B"
      <<"#", " ">> \o Marker }                               \* # [params]

\* lines with whitespace other than blank, tab and line ends
SpacedShapes ==
    { Marker \o <<"\f">>,                                    \* [params]<FF>
      AuthorCity \o <<"U+00A0", "=", " ", "\"", "B", "\"">> }
                                                             \* author_city<NBSP>= "B"

FieldPaths == {AuthorCity}

FieldValues ==
    { <<"P">>,                   \* P
      <<"a", "'", "b">>,         \* a'b
      <<"a", "\"", "b">>,        \* a"b
      <<"a", "\\">> }            \* a\

RECURSIVE JoinLines(_)
JoinLines(ls) ==
    IF ls = <<>> THEN <<>>
    ELSE IF Len(ls) = 1 THEN Head(ls)
    ELSE Head(ls) \o <<"\n">> \o JoinLines(Tail(ls))

LineLists ==
    UNION { [1..n -> LineShapes] : n \in 0..MaxLines }
      \cup UNION { [1..n -> LineShapes \cup SpacedShapes] : n \in 0..MaxSpacedLines }

Documents ==
    {JoinLines(ls) : ls \in LineLists} \cup {JoinLines(ls) \o <<"\n">> : ls \in LineLists}

InitMutator ==
    /\ hugo_toml \in { [content |-> d, fetched |-> None, field_path |-> None,
                        value |-> None, api |-> None, error |-> None,
                        upserts |-> <<>>, nCalls |-> 0] : d \in Documents }
    /\ session = UserSession
    /\ repo_info = EmptyDict
    /\ called = <<>>
    /\ reported = <<>>
    /\ skipped = {}
    /\ nDeviations = 0
    /\ script = [direct |-> Off, asked |-> Off]
    /\ handlers = None
    /\ repo_from = "nothing"
    /\ publication = None
    /\ SESSIONS = None
    /\ repository = None

\* one call of update_hugo_toml_field on the remote document
UpdateField ==
    /\ hugo_toml.nCalls < MaxCalls
    /\ \E field_path \in FieldPaths, value \in FieldValues, api \in Apis :
          LET r == UpdateHugoTomlField(hugo_toml.content, field_path, value, api)
          IN  hugo_toml' = [content |-> r.content, fetched |-> hugo_toml.content,
                            field_path |-> field_path, value |-> value,
                            api |-> api, error |-> r.error, upserts |-> r.upserts,
                            nCalls |-> hugo_toml.nCalls + 1]
    /\ UNCHANGED <<session, repo_info, called, reported, skipped, nDeviations, script,
                   handlers, repo_from, publication, SESSIONS, repository>>

SpecMutator == InitMutator /\ [][UpdateField]_vars

----------------------------------------------------------------------------
(* Claims about the field mutator (under SpecMutator).                     *)

\* the lines of a text, without their newlines
RECURSIVE LinesFrom(_, _)
LinesFrom(d, i) ==
    IF i > Len(d) THEN <<>>
    ELSE LET ends == {j \in i..Len(d) : d[j] = "\n"}
         IN  IF ends = {} THEN <<SubSeq(d, i, Len(d))>>
             ELSE <<SubSeq(d, i, MinOf(ends) - 1)>> \o LinesFrom(d, MinOf(ends) + 1)

Lines(d) == LinesFrom(d, 1)

\* a line of the form 'F = ...'
Assigns(line, field_path) ==
    LET p == SpaceEnd(line, 1)
    IN  /\ HasAt(line, p, field_path)
        /\ HasAt(line, SpaceEnd(line, p + Len(field_path)), <<"=">>)

\* a line ending in '= <the quoted value>'
Carries(line, value) ==
    LET tail == <<"=", " ">> \o TomlString(value)
    IN  /\ Len(line) >= Len(tail)
        /\ SubSeq(line, Len(line) - Len(tail) + 1, Len(line)) = tail

\* a line that is the section marker, whitespace around it aside
IsMarkerLine(line) ==
    LET p == SpaceEnd(line, 1)
    IN  /\ HasAt(line, p, Marker)
        /\ SpaceEnd(line, p + Len(Marker)) = EndOf(line)

HasMarkerLine(d) == \E i \in 1..Len(Lines(d)) : IsMarkerLine(Lines(d)[i])

\* C17: a call of the field mutator that has succeeded with (F, v) leaves a
\* document on which the same call changes nothing: applying it twice gives
\* the text that applying it once gave.
C17_MutatorIdempotent ==
    (hugo_toml.nCalls > 0 /\ hugo_toml.error = None) =>
        LET again == UpdateHugoTomlField(hugo_toml.content, hugo_toml.field_path,
                                         hugo_toml.value, "ok")
        IN  /\ again.error = None
            /\ again.content = hugo_toml.content

\* C18: after the field mutator has set F to v, exactly one line of the
\* document has the form 'F = ...' and that line carries the quoted v.
C18_ExactlyOneFieldLine ==
    (hugo_toml.nCalls > 0 /\ hugo_toml.error = None) =>
        LET ls == Lines(hugo_toml.content)
            fs == {i \in 1..Len(ls) : Assigns(ls[i], hugo_toml.field_path)}
        IN  /\ Cardinality(fs) = 1
            /\ \A i \in fs : Carries(ls[i], hugo_toml.value)

\* C19: when the document the field mutator fetched has no line that is the
\* [params] section marker, the call fails with the section-not-found error,
\* upserts nothing and leaves the remote document as it was.
C19_NoMarkerLineFails ==
    (hugo_toml.nCalls > 0 /\ hugo_toml.api # "get_fails"
        /\ ~HasMarkerLine(hugo_toml.fetched)) =>
        /\ hugo_toml.error = SectionNotFound
        /\ hugo_toml.upserts = <<>>
        /\ hugo_toml.content = hugo_toml.fetched

----------------------------------------------------------------------------
(* Two users' handlers on the one event loop of executor.start_polling    *)
(* (bot.py 1157).  A handler runs from one await to the next without any   *)
(* other handler running; at an await the loop may resume any suspended    *)
(* handler or dispatch a new update.  Only the statements that read or     *)
(* write telegram_bot/user_repos.json are kept, as positions:              *)
(*   publishing (_finalize_profile_and_deploy, 404-470):                   *)
(*     answer_building -> apply_profile -> save_load -> save_write         *)
(*       -> answer_done, or apply_profile -> answer_error                  *)
(*   'create new portfolio' (dialog_flow, 497-510):                        *)
(*     remove_write (the mapping loaded) -> answer_creating -> start_dialog *)
(* handlers.last is the mapping the users' completed writes add up to.     *)

MaxHandlers == 2

Users == {"1", "2"}

Repos == {"a", "b"}

\* the positions at which a handler is suspended: its awaits, and idle
SuspensionPointsWithAwaitInSave ==
    { "idle", "answer_building", "answer_error", "answer_done",
      "answer_creating", "start_dialog", "save_write" }

SuspensionPoints ==
    { "idle", "answer_building", "answer_error", "answer_done",
      "answer_creating", "start_dialog" }

\* _save_repo_info for user_id, bot.py 100-107: what is written, given
\* what was loaded
SavedRepoInfo(loaded, user_id, entry) == Put(loaded, user_id, entry)

\* bot.py 504-507: what is written, given what was loaded
RemovedRepoInfo(loaded, user_id) == Pop(loaded, user_id)

Idling == [pc |-> "idle", loaded |-> EmptyDict, entry |-> None, wrote |-> FALSE]

InitWriters ==
    /\ repo_info \in { [u \in known |-> [github_username |-> "a", repo_name |-> "a"]] :
                         known \in SUBSET Users }
    /\ handlers = [running |-> None,
                   of |-> [u \in Users |-> Idling],
                   last |-> repo_info,
                   n |-> [u \in Users |-> 0]]
    /\ session = UserSession
    /\ called = <<>>
    /\ reported = <<>>
    /\ skipped = {}
    /\ nDeviations = 0
    /\ script = [direct |-> Off, asked |-> Off]
    /\ hugo_toml = None
    /\ repo_from = "nothing"
    /\ publication = None
    /\ SESSIONS = None
    /\ repository = None

\* the handler of u moves to position pc; it keeps the loop unless pc is an
\* await
Moves(u, h) ==
    [handlers EXCEPT !.of[u] = h,
                     !.running = IF h.pc \in SuspensionPoints THEN None ELSE u]

\* whether the handler of u may execute its next statement: it holds the
\* loop, or nobody does and it is suspended
MayRun(u) ==
    \/ handlers.running = u
    \/ handlers.running = None /\ handlers.of[u].pc \in SuspensionPoints

Fixed == <<session, called, reported, skipped, nDeviations, script, hugo_toml,
           repo_from, publication, SESSIONS, repository>>

\* the loop dispatches the update that makes u's dialog publish: the
\* handler runs to its await at bot.py 404
BeginPublish(u) ==
    /\ handlers.of[u].pc = "idle" /\ MayRun(u)
    /\ handlers.n[u] < MaxHandlers
    /\ \E repo \in Repos :
          handlers' = [Moves(u, [Idling EXCEPT !.pc = "answer_building",
                                   !.entry = [github_username |-> "a",
                                              repo_name |-> repo]])
                        EXCEPT !.n[u] = @ + 1]
    /\ UNCHANGED <<repo_info, Fixed>>

\* apply_profile_to_repo, bot.py 406-425: it returns or raises
ApplyProfile(u) ==
    /\ handlers.of[u].pc = "answer_building" /\ MayRun(u)
    /\ \E next \in {"save_load", "answer_error"} :
          handlers' = Moves(u, [handlers.of[u] EXCEPT !.pc = next])
    /\ UNCHANGED <<repo_info, Fixed>>

\* repo_info = _load_repo_info(), bot.py 99
SaveLoad(u) ==
    /\ handlers.of[u].pc = "save_load" /\ MayRun(u)
    /\ handlers' = Moves(u, [handlers.of[u] EXCEPT !.pc = "save_write",
                                                   !.loaded = repo_info])
    /\ UNCHANGED <<repo_info, Fixed>>

\* repo_info[user_id_str] = ...; json.dump, bot.py 101-107; then the
\* handler resets the session and awaits its answer
SaveWrite(u) ==
    /\ handlers.of[u].pc = "save_write" /\ MayRun(u)
    /\ repo_info' = SavedRepoInfo(handlers.of[u].loaded, u, handlers.of[u].entry)
    /\ handlers' = [Moves(u, [handlers.of[u] EXCEPT !.pc = "answer_done",
                                                    !.wrote = TRUE])
                     EXCEPT !.last = Put(@, u, handlers.of[u].entry)]
    /\ UNCHANGED Fixed

\* the loop dispatches 'create new portfolio' of u: the handler clears the
\* session's GitHub data and loads the mapping, bot.py 497-503
BeginRemove(u) ==
    /\ handlers.of[u].pc = "idle" /\ MayRun(u)
    /\ handlers.n[u] < MaxHandlers
    /\ handlers' = [Moves(u, [Idling EXCEPT !.pc = "remove_write",
                                            !.loaded = repo_info])
                     EXCEPT !.n[u] = @ + 1]
    /\ UNCHANGED <<repo_info, Fixed>>

\* repo_info.pop(str(user_id), None); json.dump, bot.py 504-507
RemoveWrite(u) ==
    /\ handlers.of[u].pc = "remove_write" /\ MayRun(u)
    /\ repo_info' = RemovedRepoInfo(handlers.of[u].loaded, u)
    /\ handlers' = [Moves(u, [handlers.of[u] EXCEPT !.pc = "answer_creating",
                                                    !.wrote = TRUE])
                     EXCEPT !.last = Pop(@, u)]
    /\ UNCHANGED Fixed

\* an await returns: message.answer at bot.py 417, 508, the answers after
\* the save, and _start_dialog at 509
AwaitReturns(u) ==
    /\ handlers.of[u].pc \in {"answer_error", "answer_done", "answer_creating",
                              "start_dialog"}
    /\ MayRun(u)
    /\ handlers' = Moves(u, IF handlers.of[u].pc = "answer_creating"
                            THEN [handlers.of[u] EXCEPT !.pc = "start_dialog"]
                            ELSE Idling)
    /\ UNCHANGED <<repo_info, Fixed>>

NextWriters ==
    \E u \in Users :
        \/ BeginPublish(u) \/ ApplyProfile(u) \/ SaveLoad(u) \/ SaveWrite(u)
        \/ BeginRemove(u) \/ RemoveWrite(u) \/ AwaitReturns(u)

SpecWriters == InitWriters /\ [][NextWriters]_vars

----------------------------------------------------------------------------
(* Claims about the durable mapping under two users (SpecWriters).         *)

\* C20: whatever the interleaving of two users' handlers at their awaits,
\* the durable mapping is what the users' completed writes add up to: each
\* user's entry is that user's own last write (absent after a removal), and
\* no write of one user changes the entry of the other.
C20_NoLostEntry ==
    repo_info = handlers.last

\* both users' handlers are in flight after their writes: the writes
\* happened in overlapping handlers
C20_OverlappingWrites ==
    \A u \in Users : handlers.of[u].wrote /\ handlers.of[u].pc # "idle"

----------------------------------------------------------------------------
(* Claims about the durable record and the commands (under Spec).          *)

\* the record _save_repo_info writes for a publish call
RecordOf(call) ==
    [github_username |-> call.profile.github_username,
     repo_name |-> call.profile.repo_name]

\* a handler result that leaves a record it did not find has a successful
\* publish call among its calls, and the record is that call's
RecordIsPublished(r) ==
    (Has(r.ri, UserId) /\ r.ri # repo_info) =>
        /\ Len(Published(r.calls)) > 0
        /\ r.ri[UserId] = RecordOf(Published(r.calls)[Len(Published(r.calls))])

\* C22: no handler writes the user's repo-info record except after a publish
\* call of its own that succeeded, and then with the published account and
\* repository name; and the session _get_session creates when the mapping
\* has a record of the user carries that account and repository name, so
\* that /update asks for the credential only and the credential opens the
\* update menu.
C22_RecordAfterPublishAndRestored ==
    /\ \A text \in Inputs(session), env \in EnvsAt(session) :
           RecordIsPublished(Handled(text, env))
    /\ \A photo \in Photos, env \in EnvsAt(session) :
           RecordIsPublished(PhotoHandled(photo, env))
    /\ RecordIsPublished(CmdStart(session, repo_info))
    /\ RecordIsPublished(CmdUpdate(session, repo_info))
    /\ Has(repo_info, UserId) =>
           LET s == GetSession(repo_info)
               r == CmdUpdate(s, repo_info)
               t == DialogFlow(r.s, r.ri, "a", EnvOk)
           IN  /\ s.github_username = repo_info[UserId].github_username
               /\ s.repo_name = repo_info[UserId].repo_name
               /\ r.prompts = <<Prompt("update_send_token")>>
               /\ r.s.step = "update_need_token"
               /\ t.s.step = "update_menu" /\ t.s.update_mode
               /\ t.s.github_token = "a"

\* the last handler published and the mapping holds the record it wrote
C22_RecordWritten ==
    /\ Len(Published(called)) > 0
    /\ Has(repo_info, UserId)
    /\ repo_info[UserId] = RecordOf(Published(called)[1])

\* C26: /restart, at any point of the dialog, leaves profile_data, the
\* three collections, the three pending slots, the image holder and the
\* update flags at their initial empty values.
C26_RestartResetsCollectedData ==
    LET r == CmdStart(session, repo_info)
    IN  /\ r.s.profile_data = EmptyDict
        /\ r.s.career_items = <<>>
        /\ r.s.universities = <<>>
        /\ r.s.courses = <<>>
        /\ r.s.pending_career = EmptyDict
        /\ r.s.pending_university = EmptyDict
        /\ r.s.pending_course = EmptyDict
        /\ r.s.author_image_bytes = None
        /\ r.s.update_mode = FALSE
        /\ r.s.update_field = None

\* C27: for a user without a persisted record, /restart at any point of the
\* dialog puts the cursor at github_username.
C27_RestartFromTheBeginning ==
    ~Has(repo_info, UserId) =>
        CmdStart(session, repo_info).s.step = "github_username"

\* C28: in a run from a fresh session without a persisted record in which
\* no publish call has been made, /update changes nothing in the session
\* and only reports that a portfolio must be created first.
C28_UpdateOnlyAfterPublish ==
    (script.direct.on /\ script.direct.publishes = 0) =>
        LET r == CmdUpdate(session, repo_info)
        IN  /\ r.s = session
            /\ r.prompts = <<Prompt("create_portfolio_first")>>

\* the calls of the workflow step among done
WorkflowCalls(done) == SelectSeq(done, LAMBDA c : c.op = "ensure_workflow_and_trigger")

\* the environments in which the workflow step fails
WorkflowFails == {env \in Envs : env.wf # "ok"}

\* a handler that reached the workflow step reported no failure and left
\* the session idle
AppliedAndIdle(r) ==
    Len(WorkflowCalls(r.calls)) > 0 =>
        /\ Failures(r.prompts) = <<>>
        /\ r.s.step = "github_username"
        /\ r.s.update_mode = FALSE

\* C29: when the workflow step that follows a successful remote field or
\* photo update fails, the handler still reports the update as applied (no
\* failure is reported) and returns the session to idle.
C29_WorkflowFailureSwallowed ==
    /\ \A text \in Inputs(session), env \in WorkflowFails :
           AppliedAndIdle(Handled(text, env))
    /\ \A photo \in Photos, env \in WorkflowFails :
           AppliedAndIdle(PhotoHandled(photo, env))

\* C30: a token given at github_token leads directly to author_name only
\* when, since the account name was last entered, the user chose to reuse
\* the existing repository or typed the repository name at repo_name; and
\* the repository of a successful publish is one chosen or typed that way.
C30_RepoNameChosenOrTyped ==
    /\ (session.step = "github_token" /\ ~session.update_mode) =>
           \A text \in Inputs(session) :
               Handled(text, EnvOk).s.step = "author_name" =>
                   repo_from \in {"reused", "typed"}
    /\ Len(Published(called)) > 0 => repo_from \in {"reused", "typed"}

\* ------------------------------------------------------------------------
\* The generated site document (hugo_generator.py, models.py) and the
\* public-site URL (github_client.py 330-334).  Texts are sequences of
\* one-character strings, as for the field mutator.
\* ------------------------------------------------------------------------

\* Python's None where a text is expected (Optional[str] = None)
NoText == <<None>>

\* bool(v) of an Optional[str]
TextTruthy(v) == v # NoText /\ v # <<>>

\* v or ""
OrEmpty(v) == IF TextTruthy(v) THEN v ELSE <<>>

\* _toml_string of hugo_generator.py
HugoTomlString(value) ==
    LET escaped == Replace(Replace(Replace(Replace(value,
                       "\\", <<"\\", "\\">>),
                       "\"", <<"\\", "\"">>),
                       "\n", <<"\\", "n">>),
                       "\r", <<>>)
    IN  <<"\"">> \o escaped \o <<"\"">>

\* one line of the document: f"{indent}{key} = {_toml_string(value)}", or
\* a constant line; the document is the list `lines` that "\n".join glues
Field(indent, key, value) ==
    [kind |-> "field", indent |-> indent, key |-> key, value |-> HugoTomlString(value)]
Literal(text) == [kind |-> "literal", indent |-> 0, key |-> text, value |-> <<>>]

\* if x: lines.append(...)
OptionalLineAlways(key, value) == <<Field(4, key, OrEmpty(value))>>
OptionalLine(key, value) == IF TextTruthy(value) THEN <<Field(4, key, value)>> ELSE <<>>

\* the literals of models.py 128 and 65 (the description is Russian text in
\* the source; an ASCII stand-in here)
Description == <<"K", "e", "j", "s", "y">>
AuthorImagePath ==
    <<"/", "i", "m", "a", "g", "e", "s", "/", "a", "u", "t", "h", "o", "r", ".", "j", "p", "g">>

\* profile_to_hugo_params: the flat part of the dict
ProfileToHugoParams(profile) ==
    [key \in {"description", "author_name", "author_surname", "author_grade",
              "author_city", "author_intro", "author_image"} \cup ContactFields |->
        IF key = "description" THEN Description
        ELSE IF key = "author_image" THEN profile.author_image_path
        ELSE IF key \in ContactFields THEN OrEmpty(profile[key])
        ELSE profile[key]]

flat_keys ==
    <<"description", "author_name", "author_surname", "author_grade", "author_city",
      "author_intro", "author_image", "author_email", "author_telegram",
      "author_linkedin", "author_dribbble", "author_behance", "author_cv">>

CourseHeader == "  [[params.education.courses]]"
UniversityHeader == "  [[params.education.universities]]"
CareerHeader == "  [[params.career.items]]"

CourseLines(course) ==
    <<Literal(""), Literal(CourseHeader), Field(4, "title", course.title)>>
    \o OptionalLine("url", course.url)
    \o OptionalLine("provider", course.provider)
    \o OptionalLine("status", course.status)
    \o OptionalLine("year", course.year)
    \o OptionalLine("certificate", course.certificate)

UniversityLines(uni) ==
    <<Literal(""), Literal(UniversityHeader), Field(4, "name", uni.name),
      Field(4, "year", uni.year), Field(4, "speciality", uni.speciality)>>
    \o OptionalLine("degree", uni.degree)
    \o OptionalLine("note", uni.note)

CareerLines(item) ==
    <<Literal(""), Literal(CareerHeader), Field(4, "company", item.company),
      Field(4, "role", item.role)>>
    \o OptionalLine("location", item.location)
    \o <<Field(4, "start", item.start), Field(4, "end", item.end),
         Field(4, "description", item.description)>>

\* for x in xs: lines.append(...)
RECURSIVE ForEach(_, _)
ForEach(xs, kind) ==
    IF xs = <<>> THEN <<>>
    ELSE (CASE kind = "course" -> CourseLines(Head(xs))
            [] kind = "university" -> UniversityLines(Head(xs))
            [] OTHER -> CareerLines(Head(xs)))
         \o ForEach(Tail(xs), kind)

\* generate_hugo_toml: the list `lines`
GenerateHugoToml(profile) ==
    LET params == ProfileToHugoParams(profile)
    IN  <<Literal("baseURL = \"/\""), Literal("title = \"Portfolio\""),
          Literal("languageCode = \"ru-ru\""), Literal("defaultContentLanguage = \"ru\""),
          Literal(""), Literal("[params]")>>
        \o [i \in 1..Len(flat_keys) |-> Field(2, flat_keys[i], params[flat_keys[i]])]
        \o <<Literal(""), Literal("  [params.education]")>>
        \o ForEach(profile.courses, "course")
        \o ForEach(profile.universities, "university")
        \o <<Literal(""), Literal("  [params.career]")>>
        \o ForEach(profile.career_items, "career")
        \o <<Literal(""), Literal("[outputs]"), Literal("  home = [\"HTML\", \"RSS\"]"),
             Literal("  section = [\"HTML\"]"), Literal(""), Literal("[taxonomies]"),
             Literal("  # optional later: tag = \"tags\""), Literal("")>>

Https == <<"h", "t", "t", "p", "s", ":", "/", "/">>
GithubIo == <<".", "g", "i", "t", "h", "u", "b", ".", "i", "o">>

\* github_client.py 331-334; name is repo_json.get("name", "")
PagesUrlCaseSensitive(github_username, repo_name, name) ==
    IF name = github_username \o GithubIo
    THEN Https \o github_username \o GithubIo \o <<"/">>
    ELSE Https \o github_username \o GithubIo \o <<"/">> \o repo_name \o <<"/">>
PagesUrl(github_username, repo_name, name) ==
    IF LowerText(name) = LowerText(github_username) \o GithubIo
    THEN Https \o github_username \o GithubIo \o <<"/">>
    ELSE Https \o github_username \o GithubIo \o <<"/">> \o repo_name \o <<"/">>

\* ------------------------------------------------------------------------
\* One call of apply_profile_to_repo on a bounded profile
\* ------------------------------------------------------------------------

MaxEntries == 2

\* a text with every character that _toml_string escapes
EscapedText == <<"q", "\"", "\n", "\r", "\\">>

Account == <<"A", "l">>

\* repository names: an ordinary one, the account's site repository in
\* three spellings, and two near misses
RepoNames ==
    { <<"p">>,
      <<"a", "l">> \o GithubIo,
      Account \o GithubIo,
      <<"a", "L", ".", "G", "i", "t", "H", "u", "b", ".", "I", "O">>,
      Account \o GithubIo \o <<"x">>,
      <<"x">> \o Account \o GithubIo }

\* repo_json["name"]: GitHub finds a repository whatever the letter case of
\* the name asked for and answers with the name as it stores it
RepoJsonNames(repo_name) == { repo_name, LowerText(repo_name) }

ContactPatterns ==
    { <<{}, {}>>,
      <<ContactFields, {}>>,
      <<{"author_email", "author_cv"}, {"author_telegram"}>>,
      <<{"author_linkedin"}, {"author_dribbble", "author_behance"}>> }

\* present contacts hold a text, empty ones "", the others None
Contacts(pattern) ==
    [f \in ContactFields |->
        IF f \in pattern[1] THEN <<"c", "\"">>
        ELSE IF f \in pattern[2] THEN <<>> ELSE NoText]

Courses ==
    { [title |-> <<"t">>, url |-> NoText, provider |-> NoText, year |-> NoText,
       status |-> NoText, certificate |-> NoText],
      [title |-> <<"q", "\"">>, url |-> <<"u">>, provider |-> NoText, year |-> <<"2">>,
       status |-> <<>>, certificate |-> NoText],
      [title |-> <<"t">>, url |-> <<"u">>, provider |-> <<"p">>, year |-> <<"2">>,
       status |-> <<"s">>, certificate |-> <<"c">>] }

Universities ==
    { [name |-> <<"n">>, year |-> <<"2">>, speciality |-> <<"s">>,
       degree |-> NoText, note |-> <<>>],
      [name |-> <<"m", "\n">>, year |-> <<"3">>, speciality |-> <<"s">>,
       degree |-> <<"d">>, note |-> <<"o">>] }

CareerItems ==
    { [company |-> <<"c">>, role |-> <<"r">>, start |-> <<"1">>, end |-> <<"2">>,
       description |-> <<"d", "\\">>, location |-> NoText],
      [company |-> <<"k">>, role |-> <<"r">>, start |-> <<"3">>, end |-> <<"4">>,
       description |-> <<"e">>, location |-> <<"l">>] }

\* lists of at most MaxEntries entries
ListsOf(S) == UNION { [1..n -> S] : n \in 0..MaxEntries }

Profiles ==
    { [github_username |-> Account, repo_name |-> repo_name,
       author_name |-> EscapedText, author_surname |-> <<"s">>,
       author_grade |-> <<"g">>, author_city |-> <<"c">>, author_intro |-> <<"i", "\n">>,
       author_image_path |-> AuthorImagePath,
       author_email |-> Contacts(pattern).author_email,
       author_telegram |-> Contacts(pattern).author_telegram,
       author_linkedin |-> Contacts(pattern).author_linkedin,
       author_dribbble |-> Contacts(pattern).author_dribbble,
       author_behance |-> Contacts(pattern).author_behance,
       author_cv |-> Contacts(pattern).author_cv,
       career_items |-> career_items, courses |-> courses, universities |-> universities] :
      repo_name \in RepoNames, pattern \in ContactPatterns,
      career_items \in ListsOf(CareerItems), courses \in ListsOf(Courses),
      universities \in ListsOf(Universities) }

InitPublish ==
    /\ session = UserSession
    /\ repo_info = EmptyDict
    /\ called = <<>>
    /\ reported = <<>>
    /\ skipped = {}
    /\ nDeviations = 0
    /\ script = [direct |-> Off, asked |-> Off]
    /\ hugo_toml = None
    /\ handlers = None
    /\ repo_from = "nothing"
    /\ SESSIONS = None
    /\ repository = None
    /\ \E profile \in Profiles :
           publication = [profile |-> profile, done |-> FALSE, name |-> <<>>,
                          hugo_toml_content |-> <<>>, pages_url |-> <<>>]

\* apply_profile_to_repo when every request succeeds: the repository is
\* found or generated, hugo.toml and the photo are written, the URL returned
ApplyProfileToRepo ==
    /\ ~publication.done
    /\ \E name \in RepoJsonNames(publication.profile.repo_name) :
           publication' =
               [publication EXCEPT
                   !.done = TRUE,
                   !.name = name,
                   !.hugo_toml_content = GenerateHugoToml(publication.profile),
                   !.pages_url = PagesUrl(publication.profile.github_username,
                                          publication.profile.repo_name, name)]
    /\ UNCHANGED <<session, repo_info, called, reported, skipped, nDeviations, script,
                   hugo_toml, handlers, repo_from, SESSIONS, repository>>

SpecPublish == InitPublish /\ [][ApplyProfileToRepo]_vars

\* the account's site repository, whatever the letter case
IsAccountSite(profile) ==
    LowerText(profile.repo_name) = LowerText(profile.github_username) \o GithubIo

\* C25: a successful publish returns https://<account>.github.io/<repo>/,
\* except that it returns https://<account>.github.io/ exactly when the
\* repository name is, up to letter case, the account name followed by
\* ".github.io".
C25_PagesUrl ==
    publication.done =>
        LET profile == publication.profile
            root == Https \o profile.github_username \o GithubIo \o <<"/">>
        IN  /\ IsAccountSite(profile) => publication.pages_url = root
            /\ ~IsAccountSite(profile) =>
                   publication.pages_url = root \o profile.repo_name \o <<"/">>

\* a publish of the account's site repository spelled in another letter
\* case than the account, and one of a near miss
C25_SiteRepositoryInOtherCase ==
    /\ publication.done
    /\ IsAccountSite(publication.profile)
    /\ publication.profile.repo_name # publication.profile.github_username \o GithubIo
    /\ publication.name = publication.profile.repo_name
    /\ publication.pages_url = Https \o Account \o GithubIo \o <<"/">>

\* the lines of a block: those from line i up to the next constant line
RECURSIVE BlockLines(_, _)
BlockLines(lines, i) ==
    IF i > Len(lines) \/ lines[i].kind = "literal" THEN <<>>
    ELSE <<lines[i]>> \o BlockLines(lines, i + 1)

\* the sub-blocks of a document in its order: the header of each and its lines
RECURSIVE SubBlocks(_, _)
SubBlocks(lines, i) ==
    IF i > Len(lines) THEN <<>>
    ELSE IF lines[i].kind = "literal"
            /\ lines[i].key \in {CourseHeader, UniversityHeader, CareerHeader}
    THEN <<[header |-> lines[i].key, lines |-> BlockLines(lines, i + 1)]>>
         \o SubBlocks(lines, i + 1)
    ELSE SubBlocks(lines, i + 1)

\* the number of lines of a block that assign key
CountOf(block, key) == Cardinality({ i \in 1..Len(block) : block[i].key = key })

\* the block assigns key once, to the quoted text
AssignsOnce(block, key, text) ==
    /\ CountOf(block, key) = 1
    /\ \A i \in 1..Len(block) : block[i].key = key => block[i].value = HugoTomlString(text)

\* the block is the entry's: every required field once with its value, every
\* optional field once with its value if it has one and not at all otherwise
BlockIsOf(block, entry, required, optional) ==
    /\ \A i \in 1..Len(block) : block[i].key \in required \cup optional
    /\ \A key \in required : AssignsOnce(block, key, entry[key])
    /\ \A key \in optional :
           IF TextTruthy(entry[key]) THEN AssignsOnce(block, key, entry[key])
           ELSE CountOf(block, key) = 0

\* the flat block: the lines after the "[params]" line
FlatBlock(lines) ==
    BlockLines(lines, 1 + CHOOSE i \in 1..Len(lines) : lines[i] = Literal("[params]"))

\* C24: the generated document has exactly K course sub-blocks, then
\* exactly M university sub-blocks, then exactly N career sub-blocks, in
\* the profile's order and with the profile's values; an absent optional
\* contact is an empty string in the flat [params] block, and an absent
\* optional field of a sub-block produces no line.
C24_DocumentMirrorsProfile ==
    publication.done =>
        LET profile == publication.profile
            lines == publication.hugo_toml_content
            blocks == SubBlocks(lines, 1)
            K == Len(profile.courses)
            M == Len(profile.universities)
            N == Len(profile.career_items)
        IN  /\ Len(blocks) = K + M + N
            /\ \A i \in 1..K :
                   /\ blocks[i].header = CourseHeader
                   /\ BlockIsOf(blocks[i].lines, profile.courses[i], {"title"},
                                {"url", "provider", "status", "year", "certificate"})
            /\ \A i \in 1..M :
                   /\ blocks[K + i].header = UniversityHeader
                   /\ BlockIsOf(blocks[K + i].lines, profile.universities[i],
                                {"name", "year", "speciality"}, {"degree", "note"})
            /\ \A i \in 1..N :
                   /\ blocks[K + M + i].header = CareerHeader
                   /\ BlockIsOf(blocks[K + M + i].lines, profile.career_items[i],
                                {"company", "role", "start", "end", "description"},
                                {"location"})
            /\ \A f \in ContactFields :
                   AssignsOnce(FlatBlock(lines), f,
                               IF TextTruthy(profile[f]) THEN profile[f] ELSE <<>>)

\* a document of two entries of each kind, from a profile with an absent
\* contact and entries with absent optional fields
C24_FullProfileGenerated ==
    /\ publication.done
    /\ Len(publication.profile.courses) = 2
    /\ Len(publication.profile.universities) = 2
    /\ Len(publication.profile.career_items) = 2
    /\ publication.profile.courses[1] # publication.profile.courses[2]
    /\ publication.profile.courses[2].url = NoText
    /\ publication.profile.universities[1].degree = NoText
    /\ publication.profile.career_items[1].location = NoText
    /\ publication.profile.career_items[2].location # NoText
    /\ publication.profile.author_email = NoText
    /\ publication.profile.author_linkedin # NoText
    /\ Len(SubBlocks(publication.hugo_toml_content, 1)) = 6

\* ------------------------------------------------------------------------
\* Two users, each with a session in SESSIONS (bot.py 69).  The handlers
\* above are written for the user UserId; another user's handler sees the
\* durable mapping with the two keys exchanged.
\* ------------------------------------------------------------------------

MaxUpdates == 2

OtherUser(u) == IF u = "1" THEN "2" ELSE "1"

\* the durable mapping as the handlers of user u address it
View(u, ri) ==
    IF u = UserId THEN ri
    ELSE [k \in {OtherUser(x) : x \in DOMAIN ri} |-> ri[OtherUser(k)]]

\* session = _get_session(message.from_user.id): SESSIONS[user_id], made on
\* first contact
SessionOf(S, ri, u) == IF Has(S, u) THEN S[u] ELSE GetSession(View(u, ri))

\* the handler's mutations are those of the object SESSIONS[user_id]
StoreSessionForAll(S, u, s) == [x \in (DOMAIN S) \cup {u} |-> s]
StoreSession(S, u, s) == Put(S, u, s)

\* the update that class c of a script stands for
ScriptUpdate(c) ==
    CASE c = "P" -> [kind |-> "photo", text |-> "jpg"]
      [] c = "S" -> [kind |-> "text", text |-> Skip]
      [] c = "N" -> [kind |-> "text", text |-> "net"]
      [] OTHER   -> [kind |-> "text", text |-> "a"]

\* what the first k updates of the script leave of a user's first contact,
\* every collaborator succeeding
RECURSIVE ScriptedRun(_)
ScriptedRun(k) ==
    IF k = 0 THEN Result(GetSession(EmptyDict), EmptyDict, <<>>, <<>>)
    ELSE LET r == ScriptedRun(k - 1)
             m == ScriptUpdate(ScriptAsAsked[k])
         IN  CASE r.s.step # None /\ m.kind = "photo" ->
                      HandlePhoto(r.s, r.ri, m.text, EnvOk)
               [] OTHER -> DialogFlow(r.s, r.ri, m.text, EnvOk)

\* where each user is: not seen yet (0), or k - 1 updates into the script
ScriptPositions == 0 .. Len(ScriptAsAsked) + 1

InitUsers ==
    /\ session = UserSession
    /\ called = <<>>
    /\ reported = <<>>
    /\ skipped = {}
    /\ nDeviations = 0
    /\ script = [direct |-> Off, asked |-> Off]
    /\ hugo_toml = None
    /\ repo_from = "nothing"
    /\ publication = None
    /\ repository = None
    /\ handlers = [of |-> None, before |-> EmptyDict, n |-> 0, waiting |-> <<>>]
    /\ \E reached \in [Users -> ScriptPositions] :
           /\ SESSIONS = [u \in {x \in Users : reached[x] > 0} |->
                             ScriptedRun(reached[u] - 1).s]
           /\ repo_info = [u \in {x \in Users : reached[x] > 0
                                       /\ Has(ScriptedRun(reached[x] - 1).ri, UserId)} |->
                              ScriptedRun(reached[u] - 1).ri[UserId]]

\* the handler of an update of user u has run with no other handler between
\* its awaits, with result r
Handle(u, r) ==
    /\ SESSIONS' = StoreSession(SESSIONS, u, r.s)
    /\ repo_info' = View(u, r.ri)
    /\ called' = r.calls
    /\ handlers' = [handlers EXCEPT !.of = u, !.before = SESSIONS, !.n = @ + 1]
    /\ UNCHANGED <<session, reported, skipped, nDeviations, script, hugo_toml,
                   repo_from, publication, repository>>

\* the handler of an update of user u has given way at its first await
Waits(u, g) ==
    /\ g.k.at # "end"
    /\ SESSIONS' = StoreSession(SESSIONS, u, g.s)
    /\ repo_info' = View(u, g.ri)
    /\ called' = g.calls
    /\ handlers' = [handlers EXCEPT !.of = u, !.before = SESSIONS, !.n = @ + 1,
                                    !.waiting = Append(@, [u |-> u, k |-> g.k])]
    /\ UNCHANGED <<session, reported, skipped, nDeviations, script, hugo_toml,
                   repo_from, publication, repository>>

UserStart ==
    /\ handlers.n < MaxUpdates
    /\ \E u \in Users :
           LET s == SessionOf(SESSIONS, repo_info, u)
           IN  \/ Handle(u, CmdStart(s, View(u, repo_info)))
               \/ Waits(u, CmdStartBegins(s, View(u, repo_info)))

UserUpdate ==
    /\ handlers.n < MaxUpdates
    /\ \E u \in Users :
           Handle(u, CmdUpdate(SessionOf(SESSIONS, repo_info, u), View(u, repo_info)))

UserPhoto ==
    /\ handlers.n < MaxUpdates
    /\ \E u \in Users, photo \in Photos :
           LET s == SessionOf(SESSIONS, repo_info, u)
           IN  \E env \in EnvsAt(s) :
                   \/ Handle(u, HandlePhoto(s, View(u, repo_info), photo, env))
                   \/ Waits(u, HandlePhotoBegins(s, View(u, repo_info), photo, env))

UserText ==
    /\ handlers.n < MaxUpdates
    /\ \E u \in Users :
           LET s == SessionOf(SESSIONS, repo_info, u)
           IN  \E text \in Inputs(s) \cup {Skip, "net"}, env \in EnvsAt(s) :
                   \/ Handle(u, DialogFlow(s, View(u, repo_info), text, env))
                   \/ Waits(u, DialogFlowBegins(s, View(u, repo_info), text, env))

\* the await of a waiting handler returns: the handler goes on, with its
\* user's session and the durable mapping as they are then
UserResumes ==
    \E i \in 1..Len(handlers.waiting) :
        LET w == handlers.waiting[i]
            g == Continues(w.k, SessionOf(SESSIONS, repo_info, w.u), View(w.u, repo_info))
        IN  /\ SESSIONS' = StoreSession(SESSIONS, w.u, g.s)
            /\ repo_info' = View(w.u, g.ri)
            /\ called' = g.calls
            /\ handlers' = [handlers EXCEPT
                               !.of = w.u, !.before = SESSIONS,
                               !.waiting = IF g.k.at = "end" THEN Without(@, i)
                                           ELSE [@ EXCEPT ![i].k = g.k]]
            /\ UNCHANGED <<session, reported, skipped, nDeviations, script, hugo_toml,
                           repo_from, publication, repository>>

NextUsers == UserStart \/ UserUpdate \/ UserPhoto \/ UserText \/ UserResumes

SpecUsers == InitUsers /\ [][NextUsers]_vars

\* C23: handling a command, a text or a photo of one user leaves the
\* session of every other user as it was: a user without a session gets
\* none, and a session keeps its cursor, credentials, profile data,
\* collections, pending slots and update flags.
C23_OtherSessionsUnchanged ==
    handlers.of # None =>
        \A b \in Users \ {handlers.of} :
            /\ Has(SESSIONS, b) <=> Has(handlers.before, b)
            /\ Has(SESSIONS, b) => SESSIONS[b] = handlers.before[b]

\* user 1's update published and reset their session while user 2 was in
\* the middle of the dialog with answers collected
C23_PublishedBesideAnotherDialog ==
    /\ handlers.of = "1"
    /\ NPublishCalls(called) = 1
    /\ Has(handlers.before, "1")
    /\ SESSIONS["1"] # handlers.before["1"]
    /\ Has(SESSIONS, "2")
    /\ SESSIONS["2"].step = "edu_university_name"
    /\ SESSIONS["2"].career_items # <<>>
    /\ SESSIONS["2"].github_token # None

\* ------------------------------------------------------------------------
\* One user whose updates overlap.  bot.py registers its handlers on the
\* dispatcher and holds no lock: the dispatcher starts the handler of each
\* update as a task of its own, and a handler runs from one await to the
\* next without interruption.  A handler that waits at an await may wait
\* while any number of later updates are handled.  The user is somewhere
\* between the photo prompt and the last question, and answers every
\* prompt with a value, a photo or the text that ends a loop.
\* ------------------------------------------------------------------------

\* the script positions from the photo prompt to the last question
OneUserPositions == 15 .. (Len(ScriptAsAsked) - 1)

InitOneUser ==
    /\ \E k \in OneUserPositions : session = ScriptedRun(k).s
    /\ repo_info = EmptyDict
    /\ called = <<>>
    /\ reported = <<>>
    /\ skipped = {}
    /\ nDeviations = 0
    /\ script = [direct |-> Off, asked |-> Off]
    /\ hugo_toml = None
    /\ repo_from = "nothing"
    /\ publication = None
    /\ SESSIONS = None
    /\ repository = None
    /\ handlers = <<>>

Others == <<skipped, script, hugo_toml, repo_from, publication, SESSIONS, repository>>

\* the texts the user sends at session s: a value, and "нет" where it ends a
\* loop or the dialog
OneUserTexts(s) ==
    IF s.step \in MoreSteps THEN {"net"}
    ELSE IF s.step = "edu_course_title" THEN {"net"} \cup Values
    ELSE Values

\* the outcomes of the publish call that a text at session s can meet
OneUserEnvs(s, text) ==
    IF Finalizes(s, text) /\ nDeviations < MaxDeviations
    THEN {EnvOk, Env(ErrApi, "ok", "ok")}
    ELSE {EnvOk}

\* a handler has run from its first line to its last with no other handler
\* between its awaits; called keeps every call made so far
Ran(r, env) ==
    /\ session' = r.s
    /\ repo_info' = r.ri
    /\ called' = called \o r.calls
    /\ reported' = Failures(r.prompts)
    /\ nDeviations' = IF env = EnvOk THEN nDeviations ELSE nDeviations + 1
    /\ UNCHANGED handlers

\* a handler has begun and given way at its first await
GaveWay(g, env) ==
    /\ g.k.at # "end"
    /\ Len(handlers) < MaxHandlers
    /\ session' = g.s
    /\ repo_info' = g.ri
    /\ called' = called \o g.calls
    /\ reported' = Failures(g.prompts)
    /\ nDeviations' = IF env = EnvOk THEN nDeviations ELSE nDeviations + 1
    /\ handlers' = Append(handlers, [k |-> g.k, n |-> 0])

\* a text message (dialog_flow, bot.py 484-1137)
OneUserText ==
    \E text \in OneUserTexts(session) :
        \E env \in OneUserEnvs(session, text) :
            /\ \/ Ran(DialogFlow(session, repo_info, text, env), env)
               \/ GaveWay(DialogFlowBegins(session, repo_info, text, env), env)
            /\ UNCHANGED Others

\* a photo (handle_photo, bot.py 258-325)
OneUserPhoto ==
    \E photo \in Photos :
        /\ \/ Ran(HandlePhoto(session, repo_info, photo, EnvOk), EnvOk)
           \/ GaveWay(HandlePhotoBegins(session, repo_info, photo, EnvOk), EnvOk)
        /\ UNCHANGED Others

\* the await of a waiting handler returns: the handler goes on to its next
\* await or to its end, with the session as it is now
OneUserResumes ==
    \E i \in 1..Len(handlers) :
        LET g == Continues(handlers[i].k, session, repo_info)
        IN  /\ session' = g.s
            /\ repo_info' = g.ri
            /\ called' = called \o g.calls
            /\ reported' = Failures(g.prompts)
            /\ handlers' = IF g.k.at = "end" THEN Without(handlers, i)
                           ELSE [handlers EXCEPT ![i].k = g.k]
            /\ UNCHANGED nDeviations
            /\ UNCHANGED Others

NextOneUser == OneUserText \/ OneUserPhoto \/ OneUserResumes

SpecOneUser == InitOneUser /\ [][NextOneUser]_vars

\* C21: a user's updates are handled one at a time: no handler starts while
\* another is between its first read of the session and its last mutation
\* of it, and no two publish calls are made for the same collected data.
C21_HandledOneAtATime ==
    /\ Len(handlers) <= 1
    /\ \A i, j \in 1..Len(PublishCalls(called)) :
           i < j => PublishCalls(called)[i].profile # PublishCalls(called)[j].profile

\* the cursors of the update sub-flow that update_mode goes with
UpdateModeSteps == UpdateSteps \ {"update_need_token"}

\* C31: whenever update_mode is true the cursor is a state of the update
\* sub-flow (update_menu, update_contacts_menu, update_author_*): the flag
\* is never left set while the cursor is in the creation flow.
C31_UpdateModeOnlyInUpdateFlow ==
    session.update_mode => session.step \in UpdateModeSteps

\* C32: whenever the cursor is a state of the update sub-flow other than
\* update_need_token, update_mode is true; hence a text at such a cursor is
\* handled by the update sub-flow and never reaches the creation flow or
\* the desynchronized fallback.
C32_UpdateCursorImpliesUpdateMode ==
    session.step \in UpdateModeSteps =>
        /\ session.update_mode
        /\ \A text \in Inputs(session), env \in EnvsAt(session) :
               LET r == Handled(text, env)
               IN  /\ r = UpdateModeBlock(session, repo_info, text, env)
                   /\ \A i \in 1..Len(r.prompts) : r.prompts[i].id # "dialog_desync"

\* the contacts menu has taken a label and the cursor waits for the value
C32_ContactValueAwaited ==
    /\ session.step = "update_author_email"
    /\ session.update_mode
    /\ session.update_field = "author_email"

\* C33: in every reachable state every record of career_items has company,
\* role, start, end and description, every record of universities has name,
\* year and speciality, and every record of courses has title, also after a
\* sub-record was abandoned midway by a command and the flow re-entered.
C33_RecordsComplete ==
    /\ FirstMissingItem(RequiredCareerKeys, session.career_items) = None
    /\ FirstMissingItem(RequiredUniversityKeys, session.universities) = None
    /\ FirstMissingItem(RequiredCourseKeys, session.courses) = None

\* a university record was abandoned after its year (the pending slot still
\* holds it), the dialog was restarted, and a second career record has been
\* completed since
C33_CompletedAfterAbandonedRecord ==
    /\ session.step = "career_more"
    /\ Len(session.career_items) = 2
    /\ Has(session.pending_university, "year")
    /\ ~Has(session.pending_university, "speciality")

\* C34: whenever the publish collaborator is invoked, the profile passed to
\* it has at least one career entry and at least one university entry.
C34_PublishedProfileHasCareerAndUniversity ==
    \A i \in 1..Len(called) :
        called[i].op = "apply_profile_to_repo" =>
            /\ Len(called[i].profile.career_items) >= 1
            /\ Len(called[i].profile.universities) >= 1

\* a publish call was made with one career entry, one university entry and
\* no course
C34_PublishedWithoutCourses ==
    \E i \in 1..Len(called) :
        /\ called[i].op = "apply_profile_to_repo"
        /\ Len(called[i].profile.career_items) = 1
        /\ Len(called[i].profile.universities) = 1
        /\ called[i].profile.courses = <<>>

\* C35: in update mode the cancel label at any state of the update sub-flow
\* returns the session to idle (cursor github_username, update_mode false,
\* update_field cleared), calls no remote collaborator, and leaves the
\* token, the account and the repository name as they were.
C35_CancelReturnsToIdle ==
    (session.update_mode /\ session.step \in UpdateModeSteps) =>
        \A env \in Envs :
            LET r == Handled(LblCancel, env)
            IN  /\ r.s.step = "github_username"
                /\ ~r.s.update_mode
                /\ r.s.update_field = None
                /\ r.calls = <<>>
                /\ r.ri = repo_info
                /\ r.s.github_token = session.github_token
                /\ r.s.github_username = session.github_username
                /\ r.s.repo_name = session.repo_name

\* the cancel label arrives while a new city is awaited, and is answered
\* with the cancellation alone
C35_CancelledWhileValueAwaited ==
    /\ session.update_mode
    /\ session.step = "update_author_city"
    /\ session.update_field = "author_city"
    /\ Truthy(session.github_token)
    /\ Handled(LblCancel, EnvOk).prompts = <<Prompt("update_cancelled")>>
    /\ Handled(LblCancel, EnvOk).s.update_field = None

\* ------------------------------------------------------------------------
\* ensure_repo_from_template, github_client.py 27-64, against an API whose
\* answers are drawn: what it asks, what it returns, what it raises.
\* ------------------------------------------------------------------------

\* an answer of the API: the request raised in transport, or came back with
\* a status and a body
Response(raised, status_code, json) ==
    [raised |-> raised, status_code |-> status_code, json |-> json]

StatusCodes == {200, 201, 202, 401, 403, 404, 422, 500}

\* the answers to the GET of the repository and to the POST to the template
GetResponses ==
    {Response(FALSE, c, "existing") : c \in StatusCodes} \cup {Response(TRUE, 0, None)}
PostResponses ==
    {Response(FALSE, c, "generated") : c \in StatusCodes} \cup {Response(TRUE, 0, None)}

ErrInspect == "GitHubError: Failed to inspect repo"
ErrCreate == "GitHubError: Failed to create repo from template"

GetRepo(owner, repo_name) ==
    [method |-> "GET", owner |-> owner, repo |-> repo_name, name |-> None]
PostGenerate(owner, repo_name) ==
    [method |-> "POST", owner |-> "template_owner", repo |-> "template_repo",
     name |-> repo_name]

Outcome(requests, returned, raised) ==
    [requests |-> requests, returned |-> returned, raised |-> raised]

\* ensure_repo_from_template creating the repository unless the check
\* answers 200
EnsureCreatesUnlessFound(owner, repo_name, get, post) ==
    LET asked == <<GetRepo(owner, repo_name)>>
        both == Append(asked, PostGenerate(owner, repo_name))
    IN  IF get.raised THEN Outcome(asked, None, ErrTransport)
        ELSE IF get.status_code = 200 THEN Outcome(asked, get.json, None)
        ELSE IF post.raised THEN Outcome(both, None, ErrTransport)
        ELSE IF post.status_code \notin {201, 202} THEN Outcome(both, None, ErrCreate)
        ELSE Outcome(both, post.json, None)

\* ensure_repo_from_template: the requests it makes in order, the
\* descriptor it returns or the exception it raises
EnsureRepoFromTemplate(owner, repo_name, get, post) ==
    LET asked == <<GetRepo(owner, repo_name)>>
        both == Append(asked, PostGenerate(owner, repo_name))
    IN  IF get.raised THEN Outcome(asked, None, ErrTransport)
        ELSE IF get.status_code = 200 THEN Outcome(asked, get.json, None)
        ELSE IF get.status_code # 404 THEN Outcome(asked, None, ErrInspect)
        ELSE IF post.raised THEN Outcome(both, None, ErrTransport)
        ELSE IF post.status_code \notin {201, 202} THEN Outcome(both, None, ErrCreate)
        ELSE Outcome(both, post.json, None)

InitEnsure ==
    /\ session = UserSession
    /\ repo_info = EmptyDict
    /\ called = <<>>
    /\ reported = <<>>
    /\ skipped = {}
    /\ nDeviations = 0
    /\ script = [direct |-> Off, asked |-> Off]
    /\ hugo_toml = None
    /\ handlers = None
    /\ repo_from = "nothing"
    /\ publication = None
    /\ SESSIONS = None
    /\ \E repo_name \in {"portfolio", "alice.github.io"},
          get \in GetResponses, post \in PostResponses :
           repository = [owner |-> "alice", repo_name |-> repo_name, get |-> get,
                         post |-> post, done |-> FALSE,
                         outcome |-> Outcome(<<>>, None, None)]

EnsureRepo ==
    /\ ~repository.done
    /\ repository' =
           [repository EXCEPT
               !.done = TRUE,
               !.outcome = EnsureRepoFromTemplate(repository.owner, repository.repo_name,
                                                  repository.get, repository.post)]
    /\ UNCHANGED <<session, repo_info, called, reported, skipped, nDeviations, script,
                   hugo_toml, handlers, repo_from, publication, SESSIONS>>

SpecEnsure == InitEnsure /\ [][EnsureRepo]_vars

\* the create-from-template request is among the requests made
Creates(outcome) ==
    \E i \in 1..Len(outcome.requests) : outcome.requests[i].method = "POST"

\* C36: ensure_repo_from_template never asks to create the repository when
\* the existence check finds it: a check answered 200 returns the existing
\* descriptor, only a check answered 404 leads to a create request, and any
\* other status fails without creating anything.
C36_CreatesOnlyAfter404 ==
    repository.done =>
        LET get == repository.get
            outcome == repository.outcome
        IN  /\ (~get.raised /\ get.status_code = 200) =>
                   /\ outcome.returned = get.json
                   /\ outcome.raised = None
                   /\ ~Creates(outcome)
            /\ Creates(outcome) <=> (~get.raised /\ get.status_code = 404)
            /\ (get.raised \/ get.status_code \notin {200, 404}) =>
                   /\ outcome.raised # None
                   /\ outcome.returned = None
                   /\ outcome.requests = <<GetRepo(repository.owner, repository.repo_name)>>

\* the check found the repository, the API would have accepted a create
\* request, and the call asked once and returned the existing descriptor
C36_ExistingRepositoryReturned ==
    /\ repository.done
    /\ repository.get = Response(FALSE, 200, "existing")
    /\ repository.post = Response(FALSE, 201, "generated")
    /\ repository.outcome.requests = <<GetRepo("alice", repository.repo_name)>>
    /\ repository.outcome.returned = "existing"

====
